---- MODULE Spec2Model ----
(***************************************************************************)
(* Model of playlist_creator: the sync command (commands/sync.py), the     *)
(* query cache lookup it uses (core/cache.py) and the remote playlist      *)
(* gateway (core/youtube_client.py).                                       *)
(*                                                                         *)
(* A run of sync_command is cut at its remote calls: the local part up to  *)
(* the cache classification is one action, then authentication, the        *)
(* playlist fetch with the plan computation and report, and one action per *)
(* add call and per remove call. The remote answers are inputs.            *)
(*                                                                         *)
(* Optional[T] values are sequences of length at most one: <<>> is None.   *)
(***************************************************************************)
EXTENDS Integers, Sequences, FiniteSets, TLC

\* ------------------------------------------------------------------ bounds
MaxTracks == 2
MaxRemote == 2
MaxSaves == 2
MaxRows == 2
MaxRetries == 4
MaxRequests == 3
MaxSearchTracks == 2
MaxPages == 4

\* ------------------------------------------------------------- data model
None == <<>>

Some(x) == <<x>>

\* models/track.py CacheStatus
FOUND == "found"

NOT_FOUND == "not_found"

\* video ids of the items of the initial remote playlist: v1 and v2 are
\* videos cache entries resolve to, v3 is a video no cache entry knows
RemoteVideos == {"v1", "v2", "v3"}

\* models/track.py CacheEntry (status, matches, selected); of a SearchMatch
\* only the video_id is kept
CacheEntry(status, matches, selected) ==
    [status |-> status, matches |-> matches, selected |-> selected]

\* the entries a cache file holds: the two shapes search writes, and the
\* shapes a file can hold besides (selected null, at len(matches), negative)
CacheEntries ==
    {CacheEntry(NOT_FOUND, <<>>, None),
     CacheEntry(FOUND, <<"v1">>, Some(0)),
     CacheEntry(FOUND, <<"v1", "v2">>, Some(1)),
     CacheEntry(FOUND, <<"v1">>, None),
     CacheEntry(FOUND, <<"v1">>, Some(1)),
     CacheEntry(FOUND, <<"v1", "v2">>, Some(-1)),
     CacheEntry(FOUND, <<"v1">>, Some(-2))}

\* models/track.py Track; query stands for the "title - artist" string
Track(position, query) == [position |-> position, query |-> query]

\* core/parser.py: the result of parse_markdown is ParseError or a non-empty
\* list of tracks sorted by position
ParsedPlaylist(ok, tracks) == [ok |-> ok, tracks |-> tracks]

Documents ==
    {ParsedPlaylist(FALSE, <<>>)}
        \cup {ParsedPlaylist(TRUE, [k \in 1..n |-> Track(k, k)]) : n \in 1..MaxTracks}

QueriesOf(doc) == {doc.tracks[k].query : k \in 1..Len(doc.tracks)}

\* the cache file: unparseable, or a mapping query -> Optional[CacheEntry]
CacheFile(valid, entries) == [valid |-> valid, entries |-> entries]

CacheFilesFor(doc) ==
    {CacheFile(FALSE, [q \in QueriesOf(doc) |-> None])}
        \cup {CacheFile(TRUE, e) :
                e \in [QueriesOf(doc) -> {None} \cup {Some(x) : x \in CacheEntries}]}

\* remote playlist item as get_playlist_items reports it
Item(item_id, video_id) == [item_id |-> item_id, video_id |-> video_id]

RemotePlaylists ==
    UNION {{[k \in 1..n |-> Item(k, f[k])] : f \in [1..n -> RemoteVideos]} : n \in 0..MaxRemote}

\* HTTP answers of the remote API: status and reason of the error payload
Response(status, reason) == [status |-> status, reason |-> reason]

OK == Response(200, "")

Responses ==
    {OK,
     Response(403, "quotaExceeded"),
     Response(403, "dailyLimitExceeded"),
     Response(404, "videoNotFound"),
     Response(404, "playlistNotFound"),
     Response(403, "forbidden")}

\* --------------------------------------------------------- pure functions

\* core/youtube_client.py _handle_http_error: the exception raised
HandleHttpError(resp) ==
    IF resp.status = 403 /\ resp.reason \in {"quotaExceeded", "dailyLimitExceeded"}
    THEN "QuotaExceededError"
    ELSE IF resp.status = 404 /\ resp.reason = "videoNotFound"
    THEN "VideoUnavailableError"
    ELSE "YouTubeAPIError"

\* outcome of a gateway call: "ok" or the exception _handle_http_error raises
Outcome(resp) == IF resp = OK THEN "ok" ELSE HandleHttpError(resp)

\* Python list indexing matches[i]: a negative i counts from the end;
\* raised is IndexError
PyIndex(matches, i) ==
    LET k == IF i < 0 THEN i + Len(matches) ELSE i
    IN  IF k >= 0 /\ k < Len(matches)
        THEN [raised |-> FALSE, value |-> Some(matches[k + 1])]
        ELSE [raised |-> TRUE, value |-> None]

\* core/cache.py CacheManager.get on a loaded cache
Get(cache, query) == cache.entries[query]

\* core/cache.py CacheManager.get_selected_video_id
GetSelectedVideoId(cache, query) ==
    LET entry == Get(cache, query)
    IN  IF entry = None \/ entry[1].status = NOT_FOUND
        THEN [raised |-> FALSE, value |-> None]
        ELSE IF entry[1].selected = None
                  \/ entry[1].selected[1] >= Len(entry[1].matches)
        THEN [raised |-> FALSE, value |-> None]
        ELSE PyIndex(entry[1].matches, entry[1].selected[1])

RECURSIVE SelectSeq2(_, _)
\* the elements of s that satisfy the membership test, in order
SelectSeq2(s, keep) ==
    IF s = <<>> THEN <<>>
    ELSE IF keep[Head(s)] THEN <<Head(s)>> \o SelectSeq2(Tail(s), keep)
    ELSE SelectSeq2(Tail(s), keep)

RECURSIVE Insert(_, _)
\* stable insertion of desired tuple d into a list sorted by position
Insert(sorted, d) ==
    IF sorted = <<>> THEN <<d>>
    ELSE IF d.position < Head(sorted).position THEN <<d>> \o sorted
    ELSE <<Head(sorted)>> \o Insert(Tail(sorted), d)

\* desired.reverse() in place of the sort: the classification order reversed
Reversed(ds) == [n \in 1..Len(ds) |-> ds[Len(ds) + 1 - n]]

RECURSIVE SortByPosition(_)
\* sync.py desired.sort(key=lambda x: x[0]) (stable)
SortByPosition(ds) ==
    IF ds = <<>> THEN <<>>
    ELSE Insert(SortByPosition(SubSeq(ds, 1, Len(ds) - 1)), ds[Len(ds)])

\* the classification without the NOT_FOUND branch
EntryNeverNotFound(cache, query) == FALSE

\* sync.py lines 79-80: entry and entry.status == CacheStatus.NOT_FOUND
EntryIsNotFound(cache, query) ==
    /\ Get(cache, query) # None
    /\ Get(cache, query)[1].status = NOT_FOUND

\* sync.py lines 74-83: classification of the tracks against the cache.
\* raised: get_selected_video_id raised IndexError on some track
Classify(tracks, cache) ==
    LET sel(k) == GetSelectedVideoId(cache, tracks[k].query)
        idx == 1..Len(tracks)
        isDesired(k) == ~sel(k).raised /\ sel(k).value # None
        isNotFound(k) == ~isDesired(k) /\ EntryIsNotFound(cache, tracks[k].query)
        pick(p(_)) == SelectSeq2([k \in idx |-> k], [k \in idx |-> p(k)])
        dIdx == pick(isDesired)
        nIdx == pick(isNotFound)
        mIdx == pick(LAMBDA k : ~isDesired(k) /\ ~isNotFound(k))
    IN  [raised |-> \E k \in idx : sel(k).raised,
         desired |-> [n \in 1..Len(dIdx) |->
                        [position |-> tracks[dIdx[n]].position,
                         video_id |-> sel(dIdx[n]).value[1],
                         track |-> tracks[dIdx[n]]]],
         not_found |-> [n \in 1..Len(nIdx) |-> tracks[nIdx[n]]],
         missing_cache |-> [n \in 1..Len(mIdx) |-> tracks[mIdx[n]]]]

\* ToAdd without the look-up in current_by_video_id: every desired tuple
ToAddAll(des, current) == des

\* ToAdd with current_by_video_id updated inside the loop: of the desired
\* tuples of one video only the first is kept
ToAddDistinct(des, current) ==
    LET current_by_video_id == {current[k].video_id : k \in 1..Len(current)}
        idx == 1..Len(des)
        kept == SelectSeq2([k \in idx |-> k],
                           [k \in idx |->
                              /\ des[k].video_id \notin current_by_video_id
                              /\ \A m \in 1..(k - 1) : des[m].video_id # des[k].video_id])
    IN  [n \in 1..Len(kept) |-> des[kept[n]]]

\* ToAdd with the membership test inverted: the desired tuples whose video
\* is remote
ToAddPresent(des, current) ==
    LET current_by_video_id == {current[k].video_id : k \in 1..Len(current)}
    IN  SelectSeq(des, LAMBDA d : d.video_id \in current_by_video_id)

\* sync.py lines 108-120: the desired tuples whose video is not remote
ToAdd(des, current) ==
    LET current_by_video_id == {current[k].video_id : k \in 1..Len(current)}
    IN  SelectSeq(des, LAMBDA d : d.video_id \notin current_by_video_id)

\* sync.py lines 122-129: the remote items whose video is not desired
NotDesired(des, current) ==
    LET desired_set == {des[k].video_id : k \in 1..Len(des)}
    IN  SelectSeq(current, LAMBDA it : it.video_id \notin desired_set)

\* ToRemove without the test of remove_unknown
ToRemoveAlways(des, current, remove_unknown) == NotDesired(des, current)

ToRemove(des, current, remove_unknown) ==
    IF remove_unknown THEN NotDesired(des, current) ELSE <<>>

\* Unknown without the test of remove_unknown: the items to remove are
\* reported as unknown too
UnknownAlways(des, current, remove_unknown) == NotDesired(des, current)

\* sync.py lines 123-129: with --remove-unknown off the items whose video is
\* not desired are kept and reported
Unknown(des, current, remove_unknown) ==
    IF remove_unknown THEN <<>> ELSE NotDesired(des, current)

\* ------------------------------------------------ the cache file (cache.py)
\* the query strings the CacheManager instances are asked about
CacheQueries == {1, 2}

\* the CacheManager instances, each in a process of its own
Managers == {1, 2}

\* a datetime: tick counts the seconds, micro the microseconds
Datetime(tick, micro) == [tick |-> tick, micro |-> micro]

\* isoformat(timespec="seconds"): the microseconds are never written
IsoFormatSeconds(dt) == [seconds |-> dt.tick, fraction |-> None]

\* datetime.isoformat (cache.py line 70): "YYYY-MM-DDTHH:MM:SS", followed
\* by ".ffffff" only when the microsecond field is not 0
IsoFormat(dt) ==
    [seconds |-> dt.tick,
     fraction |-> IF dt.micro = 0 THEN None ELSE Some(dt.micro)]

\* datetime.fromisoformat (cache.py line 52): a text without fraction gives
\* microsecond 0
FromIsoFormat(text) ==
    Datetime(text.seconds, IF text.fraction = None THEN 0 ELSE text.fraction[1])

\* models/track.py CacheStatus: entry.status.value (cache.py line 64)
StatusValue(status) ==
    CASE status = FOUND -> "found"
      [] status = NOT_FOUND -> "not_found"

\* CacheStatus(entry_data["status"]) (cache.py line 49); raised is the
\* ValueError of a value that names no member
CacheStatusOf(value) ==
    CASE value = "found" -> [status |-> FOUND, raised |-> FALSE]
      [] value = "not_found" -> [status |-> NOT_FOUND, raised |-> FALSE]
      [] OTHER -> [status |-> NOT_FOUND, raised |-> TRUE]

\* models/track.py SearchMatch
SearchMatch(video_id, title, channel, duration) ==
    [video_id |-> video_id, title |-> title, channel |-> channel,
     duration |-> duration]

\* the search result for a video
MatchOf(v) == SearchMatch(v, "title", "channel", "3:45")

\* models/track.py CacheEntry with all its fields, as CacheManager stores it
FullCacheEntry(query, status, matches, selected, searched_at, query_used) ==
    [status |-> status, matches |-> matches, selected |-> selected,
     query |-> query, searched_at |-> searched_at,
     query_used |-> query_used]

\* the valid entries save is called with for a query at time tick: the two
\* entries search returns (youtube_client.py lines 106-112 and 132-138:
\* NOT_FOUND without matches, FOUND with selected = 0, searched_at =
\* datetime.now()) and a FOUND entry whose second match is selected
SavedEntries(query, tick) ==
    {FullCacheEntry(query, NOT_FOUND, <<>>, None, Datetime(tick, 0), "official"),
     FullCacheEntry(query, FOUND, <<MatchOf("v1")>>, Some(0),
                    Datetime(tick, 250000), "official"),
     FullCacheEntry(query, FOUND, <<MatchOf("v1"), MatchOf("v2")>>, Some(1),
                    Datetime(tick, 0), "audio")}

\* the dict with no key
EmptyCache == [q \in CacheQueries |-> None]

\* cache.py lines 63-72: the JSON object written for an entry
EntryToJson(entry) ==
    [status |-> StatusValue(entry.status),
     matches |-> [k \in 1..Len(entry.matches) |->
                    [video_id |-> entry.matches[k].video_id,
                     title |-> entry.matches[k].title,
                     channel |-> entry.matches[k].channel,
                     duration |-> entry.matches[k].duration]],
     selected |-> entry.selected,
     searched_at |-> IsoFormat(entry.searched_at),
     query_used |-> entry.query_used]

\* cache.py lines 38-54: the entry built from the JSON object of a query
EntryFromJson(query, entry_data) ==
    FullCacheEntry(query,
                   CacheStatusOf(entry_data.status).status,
                   [k \in 1..Len(entry_data.matches) |->
                      SearchMatch(entry_data.matches[k].video_id,
                                  entry_data.matches[k].title,
                                  entry_data.matches[k].channel,
                                  entry_data.matches[k].duration)],
                   entry_data.selected,
                   FromIsoFormat(entry_data.searched_at),
                   entry_data.query_used)

\* _save that leaves out the entries whose status is NOT_FOUND
DumpFoundOnly(cache) ==
    [q \in CacheQueries |->
       IF cache[q] = None \/ cache[q][1].status = NOT_FOUND
       THEN None ELSE Some(EntryToJson(cache[q][1]))]

\* cache.py lines 61-72: the data dict _save builds from the whole _cache
Dump(cache) ==
    [q \in CacheQueries |->
       IF cache[q] = None THEN None ELSE Some(EntryToJson(cache[q][1]))]

\* the cache file: absent, a complete JSON document, or the text left by an
\* open(..., "w") whose json.dump did not complete
AbsentFile == [kind |-> "absent", data |-> EmptyCache]

DocumentFile(data) == [kind |-> "document", data |-> data]

PartialFile == [kind |-> "partial", data |-> EmptyCache]

\* the defects of an existing cache file that is no cache document: a text
\* that is not JSON, a JSON array at the top level, an entry that is a JSON
\* string, an entry without "query_used", a searched_at that is no ISO text
Flaws == {"not_json", "top_level", "record_shape", "missing_field", "non_iso"}

CorruptFile(flaw) == [kind |-> flaw, data |-> EmptyCache]

\* a document whose entry has a status that names no member of CacheStatus
UnknownStatusFile(entry) ==
    DocumentFile([EmptyCache EXCEPT
                    ![entry.query] = Some([EntryToJson(entry) EXCEPT !.status = "archived"])])

\* cache.py lines 33-54: the Python exception the body of the try of _load
\* raises on file f ("" when it raises none): json.load raises
\* JSONDecodeError, data.items() and entry_data.get raise AttributeError on a
\* list and on a str, entry_data["query_used"] raises KeyError, CacheStatus
\* and datetime.fromisoformat raise ValueError
LoadRaises(f) ==
    CASE f.kind \in {"partial", "not_json"} -> "JSONDecodeError"
      [] f.kind \in {"top_level", "record_shape"} -> "AttributeError"
      [] f.kind = "missing_field" -> "KeyError"
      [] f.kind = "non_iso" -> "ValueError"
      [] f.kind = "document" ->
           IF \E q \in CacheQueries :
                f.data[q] # None /\ CacheStatusOf(f.data[q][1].status).raised
           THEN "ValueError" ELSE ""
      [] OTHER -> ""

\* cache.py lines 56-57: except (json.JSONDecodeError, KeyError, ValueError)
\* turns these three into CacheError; any other exception leaves _load as it
\* is
LoadError(f) ==
    IF LoadRaises(f) \in {"JSONDecodeError", "KeyError", "ValueError"}
    THEN "CacheError"
    ELSE LoadRaises(f)

\* cache.py lines 25-57 _load: raised when the file exists and is no cache
\* document; cache is the dict built from a document
Load(f) ==
    CASE f.kind = "absent" -> [raised |-> FALSE, cache |-> EmptyCache]
      [] f.kind = "document" ->
           IF \E q \in CacheQueries :
                f.data[q] # None /\ CacheStatusOf(f.data[q][1].status).raised
           THEN [raised |-> TRUE, cache |-> EmptyCache]
           ELSE [raised |-> FALSE,
                 cache |-> [q \in CacheQueries |->
                              IF f.data[q] = None THEN None
                              ELSE Some(EntryFromJson(q, f.data[q][1]))]]
      [] OTHER -> [raised |-> TRUE, cache |-> EmptyCache]

\* dict.setdefault in place of the assignment: an earlier entry is kept
PutIfAbsent(cache, entry) ==
    IF cache[entry.query] = None
    THEN [cache EXCEPT ![entry.query] = Some(entry)]
    ELSE cache

\* cache.py line 89: self._cache[entry.query] = entry
Put(cache, entry) == [cache EXCEPT ![entry.query] = Some(entry)]

\* cache.py lines 15-17: a new CacheManager
NewManager == [cache |-> EmptyCache, loaded |-> FALSE]

\* ensure_initialized that starts from an empty mapping whatever the file
\* holds
EnsureInitializedEmpty(mgr, f, mkdir_ok) ==
    IF ~mkdir_ok THEN [raised |-> "OSError", mgr |-> mgr]
    ELSE IF Load(f).raised THEN [raised |-> LoadError(f), mgr |-> mgr]
    ELSE [raised |-> "", mgr |-> [cache |-> EmptyCache, loaded |-> TRUE]]

\* ensure_initialized that loads the file at every call
EnsureInitializedAlways(mgr, f, mkdir_ok) ==
    IF ~mkdir_ok THEN [raised |-> "OSError", mgr |-> mgr]
    ELSE IF Load(f).raised THEN [raised |-> LoadError(f), mgr |-> mgr]
    ELSE [raised |-> "", mgr |-> [cache |-> Load(f).cache, loaded |-> TRUE]]

\* cache.py lines 19-23 ensure_initialized of a manager against the file f.
\* raised: "OSError" when CACHE_DIR.mkdir fails, "CacheError" when _load
\* fails on one of the exceptions it catches, the exception _load lets
\* through, "" otherwise
EnsureInitialized(mgr, f, mkdir_ok) ==
    IF ~mkdir_ok THEN [raised |-> "OSError", mgr |-> mgr]
    ELSE IF mgr.loaded THEN [raised |-> "", mgr |-> mgr]
    ELSE IF Load(f).raised THEN [raised |-> LoadError(f), mgr |-> mgr]
    ELSE [raised |-> "", mgr |-> [cache |-> Load(f).cache, loaded |-> TRUE]]

\* --------------------------------------------- the parser (parser.py)
\* a line of the Markdown text: kind "h1" ("# name"), "header" (the table
\* header with the columns #, Musica, Artista), "separator" (only pipes,
\* dashes, colons, spaces), "row" (any other line that starts with a pipe),
\* "blank", or "text"; cells are the stripped texts between the pipes
Line(kind, cells) == [kind |-> kind, cells |-> cells]

H1Line == Line("h1", <<>>)

HeaderLine == Line("header", <<"#", "Musica", "Artista">>)

SeparatorLine == Line("separator", <<"---", "---", "---">>)

\* the rows of the documents: three well-formed rows, two of them with the
\* same position, a row whose position cell is no integer, and a row with
\* an empty title cell
RowLines ==
    {Line("row", <<"1", "Song A", "Artist A">>),
     Line("row", <<"2", "Song B", "Artist B">>),
     Line("row", <<"1", "Song C", "Artist C">>),
     Line("row", <<"x", "Song D", "Artist D">>),
     Line("row", <<"3", "", "Artist E">>)}

\* the rows of one table
RowRuns == UNION {[1..n -> RowLines] : n \in 1..MaxRows}

\* the line between two tables: a paragraph, a blank line, or nothing
Gaps == {<<Line("text", <<>>)>>, <<Line("blank", <<>>)>>, <<>>}

TableOf(rows) == <<HeaderLine, SeparatorLine>> \o rows

\* the Markdown texts: with or without the H1 line, with no table, one
\* table or two tables
Contents ==
    LET head(t) == IF t THEN <<H1Line, Line("blank", <<>>)>> ELSE <<Line("text", <<>>)>>
    IN  {head(t) : t \in BOOLEAN}
          \cup {head(t) \o TableOf(r) : t \in BOOLEAN, r \in RowRuns}
          \cup {head(t) \o TableOf(r1) \o g \o TableOf(r2) :
                  t \in BOOLEAN, r1 \in RowRuns, g \in Gaps, r2 \in RowRuns}

\* int(text) (parser.py line 58): None is ValueError
IntOf(text) ==
    CASE text = "1" -> Some(1)
      [] text = "2" -> Some(2)
      [] text = "3" -> Some(3)
      [] OTHER -> None

\* models/track.py Track with its three fields
ParsedTrack(position, title, artist) ==
    [position |-> position, title |-> title, artist |-> artist]

\* parser.py lines 53-63: the track of a row, None for a row that is skipped
ParseRow(cells) ==
    LET filled == SelectSeq(cells, LAMBDA c : c # "")
    IN  IF Len(filled) >= 3 /\ IntOf(filled[1]) # None
        THEN Some(ParsedTrack(IntOf(filled[1])[1], filled[2], filled[3]))
        ELSE None

\* a line that starts with a pipe
Piped(line) == line.kind \in {"header", "separator", "row"}

\* a line the separator pattern [-:\s|]+ swallows after the separator line
Swallowed(line) == line.kind \in {"separator", "blank"}

\* the last index of the run of swallowed lines from index k on (k - 1
\* when line k is not one)
RECURSIVE SwallowEnd(_, _)
SwallowEnd(lines, k) ==
    IF k <= Len(lines) /\ Swallowed(lines[k]) THEN SwallowEnd(lines, k + 1) ELSE k - 1

\* the last index of the run of piped lines from index k on
RECURSIVE PipedEnd(_, _)
PipedEnd(lines, k) ==
    IF k <= Len(lines) /\ Piped(lines[k]) THEN PipedEnd(lines, k + 1) ELSE k - 1

\* parser.py lines 34-41: table_pattern.findall from line k on. A table is
\* a header line, a separator line (its pattern also swallows the blank and
\* separator lines that follow) and the run of piped lines after them, which
\* findall returns; the scan goes on after the run
RECURSIVE FindTables(_, _)
FindTables(lines, k) ==
    IF k + 2 > Len(lines) THEN <<>>
    ELSE IF lines[k].kind = "header" /\ lines[k + 1].kind = "separator"
    THEN LET swallowed == SwallowEnd(lines, k + 2)
             from == IF swallowed + 1 <= Len(lines) /\ Piped(lines[swallowed + 1])
                     THEN swallowed + 1
                     ELSE IF \E p \in (k + 2)..swallowed : Piped(lines[p])
                     THEN CHOOSE p \in (k + 2)..swallowed :
                            /\ Piped(lines[p])
                            /\ \A q \in (p + 1)..swallowed : ~Piped(lines[q])
                     ELSE 0
             to == PipedEnd(lines, from)
         IN  IF from = 0 THEN FindTables(lines, k + 1)
             ELSE <<SubSeq(lines, from, to)>> \o FindTables(lines, to + 1)
    ELSE FindTables(lines, k + 1)

\* table_pattern.search in place of findall: the first table only
FirstTable(lines) ==
    IF FindTables(lines, 1) = <<>> THEN <<>> ELSE <<FindTables(lines, 1)[1]>>

\* parser.py line 41: tables = table_pattern.findall(content)
Tables(lines) == FindTables(lines, 1)

\* parser.py lines 48-63: the tracks of the rows of the tables, in document
\* order
RECURSIVE TracksOfRows(_)
TracksOfRows(rows) ==
    IF rows = <<>> THEN <<>>
    ELSE ParseRow(Head(rows).cells) \o TracksOfRows(Tail(rows))

RECURSIVE Flatten(_)
Flatten(tables) ==
    IF tables = <<>> THEN <<>> ELSE Head(tables) \o Flatten(Tail(tables))

\* parser.py lines 23-70 parse_markdown_string: raised is "ParseError" or ""
ParseMarkdownString(lines) ==
    LET failed == [tracks |-> <<>>, raised |-> "ParseError", name |-> ""]
        tracks == TracksOfRows(Flatten(Tables(lines)))
    IN  IF \A k \in 1..Len(lines) : lines[k].kind # "h1" THEN failed
        ELSE IF Tables(lines) = <<>> THEN failed
        ELSE IF tracks = <<>> THEN failed
        ELSE [tracks |-> SortByPosition(tracks), raised |-> "", name |-> "name"]

\* ------------------------------------- retry_with_backoff (utils.py)
\* 2 ** n
RECURSIVE Pow2(_)
Pow2(n) == IF n = 0 THEN 1 ELSE 2 * Pow2(n - 1)

\* the same delay after every failed attempt
DelayConstant(base_delay, n) == base_delay

\* utils.py line 67: delay = base_delay * (2 ** attempt)
Delay(base_delay, n) == base_delay * Pow2(n)

\* base_delay, in hundredths of a second
BaseDelays == {1, 100}

\* the exceptions argument: the default (YouTubeAPIError,) and a wider tuple
ExceptionTuples == {{"YouTubeAPIError"}, {"YouTubeAPIError", "QuotaExceededError"}}

\* what one call of the wrapped function does: it returns a value or raises
FuncOutcomes ==
    {[raised |-> "", value |-> "result"],
     [raised |-> "YouTubeAPIError", value |-> ""],
     [raised |-> "QuotaExceededError", value |-> ""],
     [raised |-> "ValueError", value |-> ""]}

\* ------------------------------- rate limiting (youtube_client.py)
\* config.py line 19, in tenths of a second
RATE_LIMIT_DELAY == 5

\* the time that passes between two requests of the client, in tenths of a
\* second
Elapses == {0, 2, 5}

\* how much longer than asked time.sleep takes
Oversleeps == {0, 1}

\* a client that never waits
NoWait(last, t) == 0

\* youtube_client.py lines 42-45: the argument of time.sleep in _rate_limit
\* called at time t, 0 when it does not sleep
RateLimitWait(last, t) ==
    IF last # None /\ t - last[1] < RATE_LIMIT_DELAY
    THEN RATE_LIMIT_DELAY - (t - last[1])
    ELSE 0

\* ------------------------------------ the resolver (youtube_client.py)
\* the command line of search (force) and create (dry_run, skip_missing)
CommandLine(name, force, dry_run, skip_missing) ==
    [name |-> name, force |-> force, dry_run |-> dry_run,
     skip_missing |-> skip_missing]

\* the rows of the documents given to the commands: the first two have the
\* same query text, the third another one
TrackRows ==
    {ParsedTrack(1, "A - B", "C"), ParsedTrack(1, "A", "B - C"),
     ParsedTrack(1, "X", "Y")}

\* the dict key of the cache model for a query text
QueryKey(text) ==
    CASE text = "A - B - C" -> 1
      [] text = "X - Y" -> 2

\* models/track.py line 24: Track.query
TrackQuery(track) == QueryKey(track.title \o " - " \o track.artist)

\* utils.py lines 31-33 build_search_query
BuildSearchQuery(title, artist) ==
    "\"" \o title \o "\" \"" \o artist \o "\" official music video"

\* youtube_client.py lines 107 and 133: query=f"{title} - {artist}"
EntryQuery(title, artist) == QueryKey(title \o " - " \o artist)

\* the answers of the remote: status is the HTTP status, reason the first error
\* reason of an error body, items the video ids of a 200 answer in rank order
Answer(status, reason, items) == [status |-> status, reason |-> reason, items |-> items]

\* search().list: no result, two results, quota exceeded, a server error
SearchResponses ==
    {Answer(200, "", <<>>), Answer(200, "", <<"v2", "v1">>),
     Answer(403, "quotaExceeded", <<>>), Answer(500, "backendError", <<>>)}

\* videos().list: both durations, the duration of "v1" only, quota exceeded,
\* a server error, 404 videoNotFound
DurationResponses ==
    {Answer(200, "", <<"v2", "v1">>), Answer(200, "", <<"v1">>),
     Answer(403, "dailyLimitExceeded", <<>>), Answer(500, "backendError", <<>>),
     Answer(404, "videoNotFound", <<>>)}

\* an except clause that logs the error and goes on
SwallowHttpError(r) == ""

\* youtube_client.py lines 160-161: what the except clause of the duration
\* lookup raises ("" when it falls through to `return {}`)
DurationLookupError(r) == HandleHttpError(r)

\* youtube_client.py lines 141-170 _get_video_durations: the duration text
\* of each video of video_ids ("" for a video the answer leaves out, line
\* 123), or the exception raised
GetVideoDurations(video_ids, r) ==
    IF r.status # 200
    THEN [raised |-> DurationLookupError(r),
          durations |-> [k \in 1..Len(video_ids) |-> ""]]
    ELSE [raised |-> "",
          durations |-> [k \in 1..Len(video_ids) |->
                           IF \E n \in 1..Len(r.items) : r.items[n] = video_ids[k]
                           THEN "3:45" ELSE ""]]

\* the matches with the best result last
MatchesReversed(items, durations) ==
    [k \in 1..Len(items) |->
       SearchMatch(items[Len(items) + 1 - k], "title", "channel",
                   durations[Len(items) + 1 - k])]

\* youtube_client.py lines 119-130: one match per item, in the order of the
\* answer
Matches(items, durations) ==
    [k \in 1..Len(items) |->
       SearchMatch(items[k], "title", "channel", durations[k])]

\* youtube_client.py lines 75-139 search at time tick against the answers
\* sr (search) and dr (duration lookup): the entry returned or the exception
\* raised, and the outbound calls made
ClientSearch(title, artist, sr, dr, tick) ==
    LET looked == GetVideoDurations(sr.items, dr)
    IN  IF sr.status # 200
        THEN [raised |-> HandleHttpError(sr), entry |-> None, sent |-> <<"search">>]
        ELSE IF sr.items = <<>>
        THEN [raised |-> "",
              entry |-> Some(FullCacheEntry(EntryQuery(title, artist), NOT_FOUND,
                                            <<>>, None, Datetime(tick, 0),
                                            BuildSearchQuery(title, artist))),
              sent |-> <<"search">>]
        ELSE IF looked.raised # ""
        THEN [raised |-> looked.raised, entry |-> None,
              sent |-> <<"search", "durations">>]
        ELSE [raised |-> "",
              entry |-> Some(FullCacheEntry(
                               EntryQuery(title, artist), FOUND,
                               Matches(sr.items, looked.durations),
                               Some(0), Datetime(tick, 0),
                               BuildSearchQuery(title, artist))),
              sent |-> <<"search", "durations">>]

\* a _save that writes nothing: the file stays as it was
FileKept(f, cache) == f

\* cache.py lines 59-77 _save: the file after a _save that succeeded
FileWritten(f, cache) == DocumentFile(Dump(cache))

\* the test of a cache that skips only what was found
HasFound(cache, query) == cache[query] # None /\ cache[query][1].status = FOUND

\* cache.py lines 101-104 has, on a loaded manager
Has(cache, query) == cache[query] # None

\* search.py lines 36 and 56: cache.has(track.query) and not force
Skips(cache, track, force) == Has(cache, TrackQuery(track)) /\ ~force

\* ---------------------------- the error payload (youtube_client.py)
\* an HttpError: the status of the response and the body it carries
HttpError(status, body) == [status |-> status, body |-> body]

\* the body of an error response, by what lines 61-63 do with it:
\*   reason            {"error": {"errors": [{"reason": r}]}}
\*   no_reason         {"error": {"errors": [{}]}}
\*   no_errors         {"error": {}}, {"error": {"errors": []}}
\*   no_error          {}
\*   errors_object     {"error": {"errors": {"a": 1}}}
\*   not_json          text that is not JSON, e.g. an HTML page
\*   not_utf8          bytes that are not UTF-8
\*   not_object        JSON that is no object: [], "text", null
\*   error_not_object  {"error": "text"}
\*   errors_number     {"error": {"errors": 5}}
\*   entry_not_object  {"error": {"errors": ["text"]}}
Body(kind, reason) == [reason |-> reason, kind |-> kind]

PayloadReasons ==
    {"quotaExceeded", "dailyLimitExceeded", "videoNotFound", "playlistNotFound"}

ErrorBodies ==
    {Body("reason", r) : r \in PayloadReasons}
        \cup {Body(k, "") : k \in {"no_reason", "no_errors", "no_error",
                                   "errors_object", "not_json", "not_utf8",
                                   "not_object", "error_not_object",
                                   "errors_number", "entry_not_object"}}

Statuses == {403, 404, 500}

HttpErrors == {HttpError(s, b) : s \in Statuses, b \in ErrorBodies}

\* youtube_client.py lines 60-65: the reason read from the body; the try
\* block catches JSONDecodeError, KeyError and IndexError, so the
\* UnicodeDecodeError of decode, the AttributeError of .get on a value that
\* is no dict and the TypeError of errors[0] on a number leave the method
ErrorReason(body) ==
    CASE body.kind = "reason" -> [reason |-> body.reason, raised |-> ""]
      [] body.kind \in {"no_reason", "no_errors", "no_error"} ->
            [reason |-> "", raised |-> ""]
      [] body.kind \in {"errors_object", "not_json"} ->
            [reason |-> "", raised |-> ""]
      [] body.kind = "not_utf8" -> [reason |-> "", raised |-> "UnicodeDecodeError"]
      [] body.kind = "errors_number" -> [reason |-> "", raised |-> "TypeError"]
      [] OTHER -> [reason |-> "", raised |-> "AttributeError"]

\* youtube_client.py lines 48-73: what _handle_http_error raises for an
\* HttpError
HandleError(error) ==
    LET read == ErrorReason(error.body)
    IN  IF read.raised # "" THEN read.raised
        ELSE HandleHttpError(Response(error.status, read.reason))

\* ------------------------------- get_playlist_items (youtube_client.py)
Tokens == {"t1", "t2"}

\* a nextPageToken of a response: absent, empty or a token
NextTokens == {None, Some("")} \cup {Some(t) : t \in Tokens}

\* one response of playlistItems().list: its items and its nextPageToken
Page(list, next) == [list |-> list, next |-> next]

\* youtube_client.py line 295: `if not page_token`
Falsy(token) == token = None \/ token = Some("")

\* the items of the last response only
ExtendReplace(items, response) == response.list

\* youtube_client.py lines 287-293: the items of a response are appended
\* to items in the order of the response
Extend(items, response) == items \o response.list

\* the remote side: the page it answers for each pageToken
Remotes ==
    {[t \in {None} \cup {Some(t) : t \in Tokens} |->
        IF t = None THEN Page(first, n0)
        ELSE IF t = Some("t1") THEN Page(second, n1)
        ELSE Page(<<4>>, n2)] :
        first \in {<<>>, <<1>>, <<1, 2>>}, second \in {<<>>, <<3>>},
        n0 \in NextTokens, n1 \in NextTokens, n2 \in NextTokens}

\* ------------------------------------------------------------------ state
VARIABLES
    run,           \* 1: first invocation of sync, 2: the re-run with the same input
    pc,            \* position in sync_command
    args,          \* command line: playlist_given, remove_unknown, dry_run
    file,          \* the parsed source document the runs read
    cache_file,    \* the cache file the runs read
    remote,        \* the remote playlist: list of items
    remote0,       \* the remote playlist when the current run started
    next_item_id,  \* id the remote gives to the next inserted item
    desired,       \* sync.py desired, after the sort
    not_found,     \* sync.py not_found
    missing_cache, \* sync.py missing_cache
    planned,       \* the plan (to_add, to_remove, unknown) has been computed
    current_items, \* sync.py current_items
    to_add,        \* sync.py to_add
    to_remove,     \* sync.py to_remove
    unknown,       \* sync.py unknown
    i,             \* number of add calls made by the add loop
    j,             \* number of remove calls made by the remove loop
    calls,         \* remote calls of the current run, in order, with their outcome
    exit_code,     \* Optional exit code of the current run
    ended,         \* how the current run ended ("" while it runs)
    first,         \* exit code, end and calls of the first run, once it is over
    disk,          \* the cache file SEARCHES_FILE
    mgrs,          \* the CacheManager instances: _loaded and _cache
    writer,        \* Optional manager inside _save, after its open(..., "w")
    written,       \* the file as the last completed save left it
    last,          \* the last call of a CacheManager method and its result
    clock,         \* datetime.now(), in ticks
    content,       \* the Markdown text given to parse_markdown_string
    parsed,        \* what parse_markdown_string returned or raised on content
    decorator,     \* the arguments of retry_with_backoff
    attempt,       \* the loop variable of the retry wrapper
    func_calls,    \* the outcome of each call of the wrapped function so far
    sleeps,        \* the delay of each time.sleep of the wrapper so far
    wrapper,       \* where the wrapper is, and what it returned or raised
    now,           \* time.time(), in tenths of a second
    last_request_time, \* YouTubeClient._last_request_time
    client_pc,     \* the method of the client that is under way
    requests,      \* the outbound calls of the client so far
    command,       \* the search or create command line
    cmd_pc,        \* position in search_command or create_command
    playlist,      \* what parse_markdown gave the command
    track_index,   \* number of tracks the command's loop has gone through
    remote_calls,  \* the remote calls of the current run, with their outcome
    cmd_exit,      \* exit code of the current run and how it ended
    run_no,        \* 1: first run of the command, 2: the re-run
    run1,          \* the remote calls of the first run and the cache file it left
    tracks_ready,  \* create.py tracks_ready: track number and video id
    pages,         \* the remote side of playlistItems().list: pageToken -> response
    page_token,    \* get_playlist_items page_token
    fetched,       \* get_playlist_items items
    page_requests, \* the pageToken of each playlistItems().list request so far
    listing,       \* where get_playlist_items is, what it raised or returned
    http_error,    \* Optional HttpError given to _handle_http_error
    n_added,       \* create.py added
    n_failed,      \* create.py failed
    playlist_id,   \* create.py playlist_id: Optional id create_playlist returned
    playlists,     \* the remote playlists of the account: id -> video ids
    procs          \* two sync runs on one playlist: what each has got to

vars ==
    <<run, pc, args, file, cache_file, remote, remote0, next_item_id, desired,
      not_found, missing_cache, planned, current_items, to_add, to_remove,
      unknown, i, j, calls, exit_code, ended, first,
      disk, mgrs, writer, written, last, clock, content, parsed,
      decorator, attempt, func_calls, sleeps, wrapper,
      now, last_request_time, client_pc, requests,
      command, cmd_pc, playlist, track_index, remote_calls, cmd_exit,
      run_no, run1, tracks_ready,
      pages, page_token, fetched, page_requests, listing, http_error,
      n_added, n_failed, playlist_id, playlists, procs>>

parseVars == <<content, parsed>>

\* the variables of the functions that are checked on their own
retryVars == <<decorator, attempt, func_calls, sleeps, wrapper>>

rateVars == <<now, last_request_time, client_pc, requests>>

cmdVars ==
    <<command, cmd_pc, playlist, track_index, remote_calls, cmd_exit, run_no,
      run1, tracks_ready>>

gwVars == <<pages, page_token, fetched, page_requests, listing, http_error>>

\* the variables added for the later claims
crVars == <<n_added, n_failed, playlist_id, playlists>>

raceVars == <<procs>>

extraVars == <<gwVars, crVars, raceVars>>

auxVars == <<parseVars, retryVars, rateVars, cmdVars, extraVars>>

cacheVars == <<disk, mgrs, writer, written, last, clock>>

syncVars ==
    <<run, pc, args, file, cache_file, remote, remote0, next_item_id, desired,
      not_found, missing_cache, planned, current_items, to_add, to_remove,
      unknown, i, j, calls, exit_code, ended, first>>

\* a call of a CacheManager method: entry is the argument of save, value
\* the entry get returned, result "ok", "writing" (inside _save), "killed"
\* or the exception raised, cause the step that raised it
MethodCall(op, mgr, query, entry, result, cause, value) ==
    [query |-> query, value |-> value, entry |-> entry, mgr |-> mgr,
     op |-> op, result |-> result, cause |-> cause]

NoCall == MethodCall("", 0, 0, None, "", "", None)

\* no CacheManager exists yet and the cache file is absent
CacheIdle ==
    /\ disk = AbsentFile
    /\ mgrs = [m \in Managers |-> NewManager]
    /\ writer = None
    /\ written = AbsentFile
    /\ last = NoCall
    /\ clock = 1

inputVars == <<args, file, cache_file>>

planVars == <<planned, current_items, to_add, to_remove, unknown, i, j>>

classVars == <<desired, not_found, missing_cache>>

Args(pg, rm, dr) == [remove_unknown |-> rm, dry_run |-> dr, playlist_given |-> pg]

Call(op, video_id, item_id, result) ==
    [item_id |-> item_id, video_id |-> video_id, op |-> op, result |-> result]

RunRecord(code, how, log) == [calls |-> log, exit_code |-> code, ended |-> how]

\* parse_markdown_string has not been called
ParseIdle ==
    /\ content = <<>>
    /\ parsed = [tracks |-> <<>>, raised |-> "", name |-> ""]

\* no function wrapped by retry_with_backoff has been called
RetryIdle ==
    /\ decorator = [base_delay |-> 0, max_retries |-> 1, exceptions |-> {}]
    /\ attempt = 0
    /\ func_calls = <<>>
    /\ sleeps = <<>>
    /\ wrapper = [pc |-> "idle", out |-> None]

\* youtube_client.py lines 37-38: a client that has made no request
RateIdle ==
    /\ now = 0
    /\ last_request_time = None
    /\ client_pc = "idle"
    /\ requests = <<>>

\* neither search_command nor create_command has been invoked
CmdIdle ==
    /\ command = CommandLine("", FALSE, FALSE, FALSE)
    /\ cmd_pc = "idle"
    /\ playlist = [tracks |-> <<>>, raised |-> "", name |-> ""]
    /\ track_index = 0
    /\ remote_calls = <<>>
    /\ cmd_exit = [code |-> None, how |-> ""]
    /\ run_no = 1
    /\ run1 = [calls |-> <<>>, disk |-> AbsentFile]
    /\ tracks_ready = <<>>

\* get_playlist_items has not been called; the remote side has one empty page
GwIdle ==
    /\ pages = [t \in {None} \cup {Some(t) : t \in Tokens} |-> Page(<<>>, None)]
    /\ page_token = None
    /\ fetched = <<>>
    /\ page_requests = <<>>
    /\ listing = [raised |-> "", pc |-> "idle", result |-> None]
    /\ http_error = None

\* create_command has created no playlist and the account has none
CrIdle ==
    /\ n_added = 0
    /\ n_failed = 0
    /\ playlist_id = None
    /\ playlists = <<>>

\* the two sync runs that share a playlist
Procs == {1, 2}

\* a sync run that has not been started
IdleRun ==
    [i |-> 0, pc |-> "idle", current_items |-> <<>>, to_add |-> <<>>,
     to_remove |-> <<>>, unknown |-> <<>>, j |-> 0, calls |-> <<>>, exit_code |-> None,
     adds_before |-> 0, other_pc |-> ""]

RaceIdle == procs = [p \in Procs |-> IdleRun]

ExtraIdle == GwIdle /\ CrIdle /\ RaceIdle

AuxIdle == ParseIdle /\ RetryIdle /\ RateIdle /\ CmdIdle /\ ExtraIdle

\* sync_command has not been invoked; the remote playlist is any playlist
SyncStart ==
    /\ run = 1
    /\ pc = "idle"
    /\ args = Args(FALSE, FALSE, FALSE)
    /\ file = ParsedPlaylist(FALSE, <<>>)
    /\ cache_file = CacheFile(FALSE, <<>>)
    /\ remote \in RemotePlaylists
    /\ remote0 = remote
    /\ next_item_id = Len(remote) + 1
    /\ desired = <<>>
    /\ not_found = <<>>
    /\ missing_cache = <<>>
    /\ planned = FALSE
    /\ current_items = <<>>
    /\ to_add = <<>>
    /\ to_remove = <<>>
    /\ unknown = <<>>
    /\ i = 0
    /\ j = 0
    /\ calls = <<>>
    /\ exit_code = None
    /\ ended = ""
    /\ first = RunRecord(None, "", <<>>)

\* sync_command has not been invoked and no CacheManager call was made
Init == SyncStart /\ CacheIdle /\ AuxIdle

\* the run ends: SystemExit(code), an exception, or a return (code 0)
Exit(code, how) ==
    /\ pc' = "done"
    /\ exit_code' = Some(code)
    /\ ended' = how

\* sync.py lines 50-57: validate the playlist identifier
Validate(a) ==
    /\ args' = a
    /\ IF ~a.playlist_given
       THEN Exit(1, "missing_playlist")
       ELSE /\ pc' = "validated"
            /\ exit_code' = None
            /\ ended' = ""

\* first invocation of sync_command
Invoke(a) ==
    /\ pc = "idle"
    /\ run = 1
    /\ Validate(a)
    /\ UNCHANGED <<run, file, cache_file, remote, remote0, next_item_id,
                   calls, first>>
    /\ UNCHANGED classVars
    /\ UNCHANGED planVars
    /\ UNCHANGED <<cacheVars, auxVars>>

\* second invocation of sync_command, after a first run that ran to its end
\* (exit code 0): same file, cache and flags, against the remote state the
\* first run left
Reinvoke ==
    /\ pc = "done"
    /\ run = 1
    /\ exit_code = Some(0)
    /\ run' = 2
    /\ first' = RunRecord(exit_code, ended, calls)
    /\ Validate(args)
    /\ remote0' = remote
    /\ calls' = <<>>
    /\ desired' = <<>>
    /\ not_found' = <<>>
    /\ missing_cache' = <<>>
    /\ planned' = FALSE
    /\ current_items' = <<>>
    /\ to_add' = <<>>
    /\ to_remove' = <<>>
    /\ unknown' = <<>>
    /\ i' = 0
    /\ j' = 0
    /\ UNCHANGED <<file, cache_file, remote, next_item_id>>
    /\ UNCHANGED <<cacheVars, auxVars>>

\* sync.py lines 59-92: parse, load the cache, classify the tracks, refuse
\* to go on with uncached tracks, sort the desired tuples
Prepare(doc, c) ==
    /\ pc = "validated"
    /\ run = 1 \/ (doc = file /\ c = cache_file)
    /\ file' = doc
    /\ cache_file' = c
    /\ LET cl == Classify(doc.tracks, c)
           lost == /\ desired' = <<>>
                   /\ not_found' = <<>>
                   /\ missing_cache' = <<>>
       IN  IF ~doc.ok THEN Exit(1, "ParseError") /\ lost
           ELSE IF ~c.valid THEN Exit(1, "CacheError") /\ lost
           ELSE IF cl.raised THEN Exit(1, "IndexError") /\ lost
           ELSE /\ desired' = SortByPosition(cl.desired)
                /\ not_found' = cl.not_found
                /\ missing_cache' = cl.missing_cache
                /\ IF cl.missing_cache # <<>>
                   THEN Exit(1, "missing_cache")
                   ELSE /\ pc' = "prepared"
                        /\ UNCHANGED <<exit_code, ended>>
    /\ UNCHANGED <<run, args, remote, remote0, next_item_id, calls, first>>
    /\ UNCHANGED planVars
    /\ UNCHANGED <<cacheVars, auxVars>>

\* sync.py lines 97-98: get_authenticated_service, YouTubeClient(service)
Authenticate(ok) ==
    /\ pc = "prepared"
    /\ calls' = Append(calls, Call("get_authenticated_service", "", 0,
                                   IF ok THEN "ok" ELSE "AuthenticationError"))
    /\ IF ok
       THEN pc' = "authenticated" /\ UNCHANGED <<exit_code, ended>>
       ELSE Exit(1, "AuthenticationError")
    /\ UNCHANGED <<run, remote, remote0, next_item_id, first>>
    /\ UNCHANGED inputVars
    /\ UNCHANGED classVars
    /\ UNCHANGED planVars
    /\ UNCHANGED <<cacheVars, auxVars>>

\* the two loops in the other order
OrderRemoveFirst == <<"removing", "adding">>

\* sync.py lines 165-190: "Execute changes: Add -> Remove"
Order == <<"adding", "removing">>

\* sync.py lines 169 and 182: if to_add / if to_remove
Pending(phase, adds, removes) ==
    IF phase = "adding" THEN adds # <<>> ELSE removes # <<>>

PositionOf(phase) == CHOOSE n \in 1..Len(Order) : Order[n] = phase

\* the first loop after the n-th that has work to do, "done" when none has
PhaseAfter(n, adds, removes) ==
    LET later == {m \in (n + 1)..Len(Order) : Pending(Order[m], adds, removes)}
    IN  IF later = {} THEN "done"
        ELSE Order[CHOOSE m \in later : \A m2 \in later : m <= m2]

\* go to a loop, or past the loops to the summary (lines 192-196)
Enter(phase) ==
    IF phase = "done"
    THEN Exit(0, "complete")
    ELSE /\ pc' = phase
         /\ UNCHANGED <<exit_code, ended>>

\* sync.py line 156: if not to_add and not to_remove
AlreadySynchronized(adds, removes) == adds = <<>> /\ removes = <<>>

\* the early return as a failure exit
SynchronizedExitOne == Exit(1, "synchronized")

\* sync.py lines 157-158: report "ja esta sincronizada" and return
SynchronizedReturn == Exit(0, "synchronized")

\* the plan applied whatever --dry-run says
DryRunIgnored(a) == FALSE

\* sync.py line 161: if dry_run
DryRunStops(a) == a.dry_run

\* sync.py lines 100-163: fetch the playlist, compute and report the plan,
\* return when there is nothing to do or on --dry-run; lines 102-104 turn
\* a PlaylistNotFoundError of get_playlist_items into SystemExit(1)
FetchAndPlan(resp) ==
    /\ pc = "authenticated"
    /\ calls' = Append(calls, Call("get_playlist_items", "", 0, Outcome(resp)))
    /\ IF Outcome(resp) = "PlaylistNotFoundError"
       THEN /\ Exit(1, "playlist_not_found")
            /\ UNCHANGED planVars
       ELSE IF Outcome(resp) # "ok"
       THEN /\ Exit(1, Outcome(resp))
            /\ UNCHANGED planVars
       ELSE LET adds == ToAdd(desired, remote)
                removes == ToRemove(desired, remote, args.remove_unknown)
            IN  /\ planned' = TRUE
                /\ current_items' = remote
                /\ to_add' = adds
                /\ to_remove' = removes
                /\ unknown' = Unknown(desired, remote, args.remove_unknown)
                /\ UNCHANGED <<i, j>>
                /\ IF AlreadySynchronized(adds, removes) THEN SynchronizedReturn
                   ELSE IF DryRunStops(args) THEN Exit(0, "dry_run")
                   ELSE Enter(PhaseAfter(0, adds, removes))
    /\ UNCHANGED <<run, remote, remote0, next_item_id, first>>
    /\ UNCHANGED inputVars
    /\ UNCHANGED classVars
    /\ UNCHANGED <<cacheVars, auxVars>>

\* a playlistItems().insert that leaves the playlist alone when it holds
\* the video already
RemoteInsertUnique(items, item_id, video_id) ==
    IF \E k \in 1..Len(items) : items[k].video_id = video_id
    THEN items
    ELSE Append(items, Item(item_id, video_id))

\* the remote playlist after a successful playlistItems().insert: appended
RemoteInsert(items, item_id, video_id) == Append(items, Item(item_id, video_id))

\* the add loop passing the track position as insertion position
AddPositionOfTrack(d) == Some(d.position - 1)

\* sync.py line 173: add_video_to_playlist(args.playlist_id, video_id) is
\* called without the position argument
AddPosition(d) == None

\* youtube_client.py lines 212-256: playlistItems().insert; the snippet
\* carries a position only when one is given, and without one the service
\* appends the item
RemoteInsertAt(items, item_id, video_id, position) ==
    IF position = None
    THEN RemoteInsert(items, item_id, video_id)
    ELSE LET at == IF position[1] < Len(items) THEN position[1] ELSE Len(items)
         IN  SubSeq(items, 1, at) \o <<Item(item_id, video_id)>>
               \o SubSeq(items, at + 1, Len(items))

\* the remote playlist after a successful playlistItems().delete
RemoteDelete(items, item_id) == SelectSeq(items, LAMBDA it : it.item_id # item_id)

\* the add loop without the except VideoUnavailableError clause
AddContinuesOnlyOk(out) == out = "ok"

\* the add loop with QuotaExceededError skipped like an unavailable video
AddContinuesOnQuota(out) ==
    out \in {"ok", "VideoUnavailableError", "QuotaExceededError"}

\* sync.py lines 172-176: the add loop goes on after a successful add and
\* after VideoUnavailableError
\* an add loop that only the quota ends
AddContinuesButQuota(out) == out # "QuotaExceededError"

AddContinues(out) == out \in {"ok", "VideoUnavailableError"}

\* a remove loop that goes on whatever the call raised
RemoveContinuesAlways(out) == TRUE

\* sync.py lines 185-187: the remove loop goes on after a successful remove
RemoveContinues(out) == out = "ok"

\* sync.py lines 171-179 and 198-200: one pass of the add loop; i counts
\* the add calls made
AddStep(resp) ==
    /\ pc = "adding"
    /\ i < Len(to_add)
    /\ LET vid == to_add[i + 1].video_id
           out == Outcome(resp)
       IN  /\ calls' = Append(calls, Call("add_video_to_playlist", vid, 0, out))
           /\ i' = i + 1
           /\ IF out = "ok"
              THEN /\ remote' = RemoteInsertAt(remote, next_item_id, vid,
                                               AddPosition(to_add[i + 1]))
                   /\ next_item_id' = next_item_id + 1
              ELSE UNCHANGED <<remote, next_item_id>>
           /\ IF AddContinues(out)
              THEN IF i + 1 < Len(to_add)
                   THEN UNCHANGED <<pc, exit_code, ended>>
                   ELSE Enter(PhaseAfter(PositionOf("adding"), to_add, to_remove))
              ELSE Exit(1, out)
    /\ UNCHANGED <<run, remote0, first, planned, current_items, to_add,
                   to_remove, unknown, j>>
    /\ UNCHANGED inputVars
    /\ UNCHANGED classVars
    /\ UNCHANGED <<cacheVars, auxVars>>

\* sync.py lines 184-190 and 198-200: one pass of the remove loop; j counts
\* the remove calls made
RemoveStep(resp) ==
    /\ pc = "removing"
    /\ j < Len(to_remove)
    /\ LET it == to_remove[j + 1]
           out == Outcome(resp)
       IN  /\ calls' = Append(calls,
                              Call("remove_playlist_item", it.video_id, it.item_id, out))
           /\ j' = j + 1
           /\ IF out = "ok"
              THEN remote' = RemoteDelete(remote, it.item_id)
              ELSE UNCHANGED remote
           /\ IF RemoveContinues(out)
              THEN IF j + 1 < Len(to_remove)
                   THEN UNCHANGED <<pc, exit_code, ended>>
                   ELSE Enter(PhaseAfter(PositionOf("removing"), to_add, to_remove))
              ELSE Exit(1, out)
    /\ UNCHANGED <<run, remote0, next_item_id, first, planned, current_items,
                   to_add, to_remove, unknown, i>>
    /\ UNCHANGED inputVars
    /\ UNCHANGED classVars
    /\ UNCHANGED <<cacheVars, auxVars>>

Next ==
    \/ \E pg, rm, dr \in BOOLEAN : Invoke(Args(pg, rm, dr))
    \/ Reinvoke
    \/ \E doc \in Documents : \E c \in CacheFilesFor(doc) : Prepare(doc, c)
    \/ \E ok \in BOOLEAN : Authenticate(ok)
    \/ \E resp \in Responses : FetchAndPlan(resp)
    \/ \E resp \in Responses : AddStep(resp)
    \/ \E resp \in Responses : RemoveStep(resp)

Spec == Init /\ [][Next]_vars

\* --------------------------------------------- the CacheManager at work
\* the entry a cache file left by an earlier run holds
EarlierEntry ==
    FullCacheEntry(1, FOUND, <<MatchOf("v3")>>, Some(0), Datetime(0, 250000),
                   "official")

\* the cache file before the first call: absent, written by an earlier run,
\* or an existing file that is no cache document
InitialFiles ==
    {AbsentFile, DocumentFile(Dump(Put(EmptyCache, EarlierEntry))),
     UnknownStatusFile(EarlierEntry)}
        \cup {CorruptFile(flaw) : flaw \in Flaws}

InitCache ==
    /\ SyncStart
    /\ remote = <<>>
    /\ disk \in InitialFiles
    /\ mgrs = [m \in Managers |-> NewManager]
    /\ writer = None
    /\ written = disk
    /\ last = NoCall
    /\ clock = 1
    /\ AuxIdle

\* the step of a method call whose ensure_initialized raised
CauseOf(raised) == IF raised = "OSError" THEN "mkdir" ELSE "load"

\* cache.py lines 81-84: get(query) on manager m
GetCall(m, query, mkdir_ok) ==
    /\ writer = None
    /\ LET init == EnsureInitialized(mgrs[m], disk, mkdir_ok)
       IN  /\ mgrs' = [mgrs EXCEPT ![m] = init.mgr]
           /\ last' = IF init.raised # ""
                      THEN MethodCall("get", m, query, None, init.raised,
                                      CauseOf(init.raised), None)
                      ELSE MethodCall("get", m, query, None, "ok", "",
                                      init.mgr.cache[query])
    /\ UNCHANGED <<disk, writer, written, clock>>
    /\ UNCHANGED <<syncVars, auxVars>>

\* the _cache of a manager as get_selected_video_id reads it: of each match
\* the video_id
ViewOf(cache) ==
    CacheFile(TRUE,
              [q \in CacheQueries |->
                 IF cache[q] = None THEN None
                 ELSE Some(CacheEntry(cache[q][1].status,
                                      [k \in 1..Len(cache[q][1].matches) |->
                                         cache[q][1].matches[k].video_id],
                                      cache[q][1].selected))])

\* cache.py lines 101-104: has(query) on manager m; the result is the
\* boolean returned
HasCall(m, query, mkdir_ok) ==
    /\ writer = None
    /\ LET init == EnsureInitialized(mgrs[m], disk, mkdir_ok)
       IN  /\ mgrs' = [mgrs EXCEPT ![m] = init.mgr]
           /\ last' = IF init.raised # ""
                      THEN MethodCall("has", m, query, None, init.raised,
                                      CauseOf(init.raised), None)
                      ELSE MethodCall("has", m, query, None,
                                      IF init.mgr.cache[query] # None
                                      THEN "True" ELSE "False",
                                      "", None)
    /\ UNCHANGED <<disk, writer, written, clock>>
    /\ UNCHANGED <<syncVars, auxVars>>

\* cache.py lines 92-99: get_selected_video_id(query) on manager m; value is
\* the video_id returned
SelectedVideoIdCall(m, query, mkdir_ok) ==
    /\ writer = None
    /\ LET init == EnsureInitialized(mgrs[m], disk, mkdir_ok)
           r == GetSelectedVideoId(ViewOf(init.mgr.cache), query)
       IN  /\ mgrs' = [mgrs EXCEPT ![m] = init.mgr]
           /\ last' = IF init.raised # ""
                      THEN MethodCall("get_selected_video_id", m, query, None,
                                      init.raised, CauseOf(init.raised), None)
                      ELSE MethodCall("get_selected_video_id", m, query, None,
                                      IF r.raised THEN "IndexError" ELSE "ok",
                                      "", r.value)
    /\ UNCHANGED <<disk, writer, written, clock>>
    /\ UNCHANGED <<syncVars, auxVars>>

\* cache.py lines 86-90 and 59-76: save(entry) on manager m up to the
\* open(SEARCHES_FILE, "w") of _save, which truncates the file; open_ok is
\* FALSE when the mkdir or the open of _save raises OSError
SaveCall(m, entry, mkdir_ok, open_ok) ==
    /\ writer = None
    /\ clock <= MaxSaves
    /\ clock' = clock + 1
    /\ LET init == EnsureInitialized(mgrs[m], disk, mkdir_ok)
           updated == [init.mgr EXCEPT !.cache = Put(@, entry)]
       IN  IF init.raised # ""
           THEN /\ mgrs' = [mgrs EXCEPT ![m] = init.mgr]
                /\ last' = MethodCall("save", m, entry.query, Some(entry),
                                      init.raised, CauseOf(init.raised), None)
                /\ UNCHANGED <<disk, writer, written>>
           ELSE /\ mgrs' = [mgrs EXCEPT ![m] = updated]
                /\ IF open_ok
                   THEN /\ disk' = PartialFile
                        /\ writer' = Some(m)
                        /\ last' = MethodCall("save", m, entry.query, Some(entry),
                                              "writing", "", None)
                        /\ UNCHANGED written
                   ELSE /\ last' = MethodCall("save", m, entry.query, Some(entry),
                                              "CacheError", "open", None)
                        /\ UNCHANGED <<disk, writer, written>>
    /\ UNCHANGED <<syncVars, auxVars>>

\* cache.py lines 76-79: json.dump into the opened file completes, or raises
\* OSError part-way and _save raises CacheError
WriteFile(ok) ==
    /\ writer # None
    /\ IF ok
       THEN /\ disk' = DocumentFile(Dump(mgrs[writer[1]].cache))
            /\ written' = disk'
            /\ last' = [last EXCEPT !.result = "ok"]
       ELSE /\ last' = [last EXCEPT !.result = "CacheError", !.cause = "write"]
            /\ UNCHANGED <<disk, written>>
    /\ writer' = None
    /\ UNCHANGED <<mgrs, clock>>
    /\ UNCHANGED <<syncVars, auxVars>>

\* the process of manager m is killed; the next call on m is the call of a
\* new process on a new CacheManager (cache.py lines 15-17)
ProcessKilled(m) ==
    /\ mgrs[m] # NewManager \/ writer = Some(m)
    /\ mgrs' = [mgrs EXCEPT ![m] = NewManager]
    /\ writer' = IF writer = Some(m) THEN None ELSE writer
    /\ last' = IF last.mgr = m THEN [last EXCEPT !.result = "killed"] ELSE last
    /\ UNCHANGED <<disk, written, clock>>
    /\ UNCHANGED <<syncVars, auxVars>>

NextCache ==
    \/ \E m \in Managers : \E q \in CacheQueries : \E mkdir_ok \in BOOLEAN :
         GetCall(m, q, mkdir_ok)
    \/ \E m \in Managers : \E q \in CacheQueries : HasCall(m, q, TRUE)
    \/ \E m \in Managers : \E q \in CacheQueries : SelectedVideoIdCall(m, q, TRUE)
    \/ \E m \in Managers : \E q \in CacheQueries :
         \E e \in SavedEntries(q, clock) : \E mkdir_ok, open_ok \in BOOLEAN :
           SaveCall(m, e, mkdir_ok, open_ok)
    \/ \E ok \in BOOLEAN : WriteFile(ok)
    \/ \E m \in Managers : ProcessKilled(m)

SpecCache == InitCache /\ [][NextCache]_vars

\* --------------------------------------------------- the parser at work
InitParse ==
    /\ SyncStart
    /\ remote = <<>>
    /\ CacheIdle
    /\ content \in Contents
    /\ parsed = [tracks |-> <<>>, raised |-> "", name |-> ""]
    /\ RetryIdle
    /\ RateIdle
    /\ CmdIdle
    /\ ExtraIdle

\* parser.py lines 17-20: parse_markdown reads the text and parses it
ParseMarkdown ==
    /\ parsed.raised = "" /\ parsed.name = ""
    /\ parsed' = ParseMarkdownString(content)
    /\ UNCHANGED content
    /\ UNCHANGED <<syncVars, extraVars, cacheVars, retryVars, rateVars, cmdVars>>

NextParse == ParseMarkdown

SpecParse == InitParse /\ [][NextParse]_vars

\* --------------------------------------------------- the retry wrapper
\* the wrapper of a decorated function is called
InitRetry ==
    /\ SyncStart
    /\ remote = <<>>
    /\ CacheIdle
    /\ ParseIdle
    /\ decorator \in [max_retries : 1..MaxRetries, base_delay : BaseDelays,
                      exceptions : ExceptionTuples]
    /\ attempt = 0
    /\ func_calls = <<>>
    /\ sleeps = <<>>
    /\ wrapper = [pc |-> "loop", out |-> None]
    /\ RateIdle
    /\ CmdIdle
    /\ ExtraIdle

\* utils.py lines 61-69: one pass of the loop, the call of func made with
\* its outcome; the n-th call is func_calls[n] and an exception carries the
\* number of the call that raised it
Attempt(outcome) ==
    /\ wrapper.pc = "loop"
    /\ attempt < decorator.max_retries
    /\ func_calls' = Append(func_calls, outcome)
    /\ IF outcome.raised = ""
       THEN /\ wrapper' = [pc |-> "returned", out |-> Some(outcome.value)]
            /\ UNCHANGED <<attempt, sleeps>>
       ELSE IF outcome.raised \notin decorator.exceptions
                 \/ attempt = decorator.max_retries - 1
       THEN /\ wrapper' = [pc |-> "raised",
                           out |-> Some([type |-> outcome.raised,
                                         call |-> Len(func_calls) + 1])]
            /\ UNCHANGED <<attempt, sleeps>>
       ELSE /\ sleeps' = Append(sleeps, Delay(decorator.base_delay, attempt))
            /\ attempt' = attempt + 1
            /\ UNCHANGED wrapper
    /\ UNCHANGED decorator
    /\ UNCHANGED <<syncVars, extraVars, cacheVars, parseVars, rateVars, cmdVars>>

NextRetry == \E outcome \in FuncOutcomes : Attempt(outcome)

SpecRetry == InitRetry /\ [][NextRetry]_vars

\* ------------------------------------------- the client's outbound calls
InitRate ==
    /\ SyncStart
    /\ remote = <<>>
    /\ CacheIdle
    /\ ParseIdle
    /\ RetryIdle
    /\ RateIdle
    /\ CmdIdle
    /\ ExtraIdle

\* _rate_limit (youtube_client.py lines 40-46) called `elapse` after the
\* last step, then the outbound call of `method`; the call is logged with the
\* time _rate_limit was entered, the time it slept, the time it recorded and
\* the time the call started
Outbound(method, elapse, over, next_pc) ==
    LET entered == now + elapse
        wait == RateLimitWait(last_request_time, entered)
        recorded == entered + wait + (IF wait > 0 THEN over ELSE 0)
    IN  /\ Len(requests) < MaxRequests
        /\ last_request_time' = Some(recorded)
        /\ now' = recorded
        /\ requests' = Append(requests,
                              [method |-> method, entered |-> entered,
                               recorded |-> recorded, slept |-> wait,
                               started |-> recorded])
        /\ client_pc' = next_pc
        /\ UNCHANGED <<syncVars, extraVars, cacheVars, parseVars, retryVars, cmdVars>>

\* youtube_client.py lines 90-99: search().list; with results the duration
\* lookup follows (line 118), without results or on an error search is over
SearchList(elapse, over, found) ==
    /\ client_pc = "idle"
    /\ Outbound("search", elapse, over, IF found THEN "durations" ELSE "idle")

\* youtube_client.py lines 153-159: videos().list of _get_video_durations
VideosList(elapse, over) ==
    /\ client_pc = "durations"
    /\ Outbound("durations", elapse, over, "idle")

\* youtube_client.py lines 192-206
CreatePlaylist(elapse, over) ==
    /\ client_pc = "idle"
    /\ Outbound("create_playlist", elapse, over, "idle")

\* youtube_client.py lines 233-252
AddVideoToPlaylist(elapse, over) ==
    /\ client_pc = "idle"
    /\ Outbound("add", elapse, over, "idle")

\* youtube_client.py lines 274-297: one page of get_playlist_items; with a
\* nextPageToken the loop asks for the next page
PlaylistItemsPage(elapse, over, more) ==
    /\ client_pc \in {"idle", "page"}
    /\ Outbound("page", elapse, over, IF more THEN "page" ELSE "idle")

\* youtube_client.py lines 311-314
RemovePlaylistItem(elapse, over) ==
    /\ client_pc = "idle"
    /\ Outbound("remove", elapse, over, "idle")

\* youtube_client.py lines 337-353
UpdatePlaylistItemPosition(elapse, over) ==
    /\ client_pc = "idle"
    /\ Outbound("update", elapse, over, "idle")

NextRate ==
    \E elapse \in Elapses, over \in Oversleeps :
      \/ \E found \in BOOLEAN : SearchList(elapse, over, found)
      \/ VideosList(elapse, over)
      \/ CreatePlaylist(elapse, over)
      \/ AddVideoToPlaylist(elapse, over)
      \/ \E more \in BOOLEAN : PlaylistItemsPage(elapse, over, more)
      \/ RemovePlaylistItem(elapse, over)
      \/ UpdatePlaylistItemPosition(elapse, over)

SpecRate == InitRate /\ [][NextRate]_vars

\* ------------------------------------------------ search_command at work
\* what parse_markdown gives the commands: a ParseError, or a playlist of
\* one track or more
CommandDocs ==
    {[tracks |-> <<>>, raised |-> "ParseError", name |-> ""]}
        \cup {[tracks |-> t, raised |-> "", name |-> "name"] :
                t \in UNION {[1..n -> TrackRows] : n \in 1..MaxSearchTracks}}

\* an entry an earlier run saved for a query
SavedEarlier(query, status) ==
    FullCacheEntry(query, status,
                   IF status = FOUND THEN <<MatchOf("v3")>> ELSE <<>>,
                   IF status = FOUND THEN Some(0) ELSE None,
                   Datetime(0, 0), "official")

\* the cache file when search_command starts: absent, with the first query
\* found, with both queries (the second not found), with a JSON array at
\* the top level, with a text that is not JSON
SearchDisks ==
    {AbsentFile,
     DocumentFile(Dump(Put(EmptyCache, SavedEarlier(1, FOUND)))),
     DocumentFile(Dump(Put(Put(EmptyCache, SavedEarlier(1, FOUND)),
                           SavedEarlier(2, NOT_FOUND)))),
     CorruptFile("top_level"), CorruptFile("not_json")}

InitSearch ==
    /\ SyncStart
    /\ remote = <<>>
    /\ disk \in SearchDisks
    /\ mgrs = [m \in Managers |-> NewManager]
    /\ writer = None
    /\ written = disk
    /\ last = NoCall
    /\ clock = 1
    /\ ParseIdle
    /\ RetryIdle
    /\ RateIdle
    /\ CmdIdle
    /\ ExtraIdle

\* a remote call of a command: the operation, the number of the track it
\* is made for (0 for none), the exception raised ("" for none), the entry
\* search returned, the outbound requests sent, and the answers of the remote
\* to the search and to the duration lookup (None when none was made)
RemoteCall(op, track_no, raised, entry, sent, sr, dr) ==
    [raised |-> raised, entry |-> entry, sr |-> sr, dr |-> dr,
     sent |-> sent, op |-> op, track_no |-> track_no]

\* the command ends: SystemExit(code), a return (code 0), or an exception
\* that leaves the command (code 1)
CmdEnd(code, how) ==
    /\ cmd_pc' = "done"
    /\ cmd_exit' = [code |-> Some(code), how |-> how]

\* search.py lines 25-48: parse, load the cache, return when every track is
\* cached, authenticate
SearchBegin(doc, force, mkdir_ok, auth_ok) ==
    LET init == EnsureInitialized(NewManager, disk, mkdir_ok)
    IN  /\ track_index' = 0
        /\ IF doc.raised # ""
           THEN /\ CmdEnd(1, doc.raised)
                /\ mgrs' = [mgrs EXCEPT ![1] = NewManager]
                /\ remote_calls' = <<>>
           ELSE IF init.raised # ""
           THEN /\ CmdEnd(1, init.raised)
                /\ mgrs' = [mgrs EXCEPT ![1] = NewManager]
                /\ remote_calls' = <<>>
           ELSE /\ mgrs' = [mgrs EXCEPT ![1] = init.mgr]
                /\ IF \A k \in 1..Len(doc.tracks) :
                        Skips(init.mgr.cache, doc.tracks[k], force)
                   THEN /\ CmdEnd(0, "all_cached")
                        /\ remote_calls' = <<>>
                   ELSE /\ remote_calls' =
                             <<RemoteCall("get_authenticated_service", 0,
                                          IF auth_ok THEN "" ELSE "AuthenticationError",
                                          None, <<>>, Answer(200, "", <<>>),
                                          None)>>
                        /\ IF auth_ok
                           THEN /\ cmd_pc' = "searching"
                                /\ cmd_exit' = [code |-> None, how |-> ""]
                           ELSE CmdEnd(1, "AuthenticationError")

\* search_command is invoked
SearchStart(doc, force, mkdir_ok, auth_ok) ==
    /\ cmd_pc = "idle"
    /\ command' = CommandLine("search", force, FALSE, FALSE)
    /\ playlist' = doc
    /\ SearchBegin(doc, force, mkdir_ok, auth_ok)
    /\ UNCHANGED <<run_no, run1, tracks_ready>>
    /\ UNCHANGED <<disk, writer, written, last, clock>>
    /\ UNCHANGED <<syncVars, extraVars, parseVars, retryVars, rateVars>>

\* the loop goes on to the next track, or to the summary after the last
\* (search.py lines 92-99)
NextTrack ==
    /\ track_index' = track_index + 1
    /\ IF track_index + 1 = Len(playlist.tracks)
       THEN CmdEnd(0, "complete")
       ELSE UNCHANGED <<cmd_pc, cmd_exit>>

\* search.py lines 55-90: one pass of the loop. A cached track is skipped;
\* otherwise the track is searched and the entry saved; save is "ok",
\* "open_failed" (the file stays as it was) or "write_failed" (the file is
\* left truncated), both CacheError
SearchTrack(sr, dr, save) ==
    LET track == playlist.tracks[track_index + 1]
        res == ClientSearch(track.title, track.artist, sr, dr, clock)
        stored == Put(mgrs[1].cache, res.entry[1])
    IN  /\ cmd_pc = "searching"
        /\ IF Skips(mgrs[1].cache, track, command.force)
           THEN /\ NextTrack
                /\ UNCHANGED <<disk, mgrs, clock, remote_calls>>
           ELSE /\ remote_calls' =
                     Append(remote_calls,
                            RemoteCall("search", track_index + 1, res.raised,
                                       res.entry, res.sent, sr,
                                       IF Len(res.sent) = 2 THEN Some(dr) ELSE None))
                /\ clock' = clock + 1
                /\ IF res.raised # ""
                   THEN /\ CmdEnd(1, res.raised)
                        /\ UNCHANGED <<disk, mgrs, track_index>>
                   ELSE /\ mgrs' = [mgrs EXCEPT ![1].cache = stored]
                        /\ IF save = "ok"
                           THEN /\ disk' = FileWritten(disk, stored)
                                /\ NextTrack
                           ELSE /\ disk' = IF save = "open_failed" THEN disk
                                           ELSE PartialFile
                                /\ CmdEnd(1, "CacheError")
                                /\ UNCHANGED track_index
        /\ UNCHANGED <<command, playlist, run_no, run1, tracks_ready>>
        /\ UNCHANGED <<writer, written, last>>
        /\ UNCHANGED <<syncVars, extraVars, parseVars, retryVars, rateVars>>

\* search_command is invoked again on the same file after a run that the
\* quota interrupted
SearchRerun(force, auth_ok) ==
    /\ cmd_pc = "done"
    /\ run_no = 1
    /\ command.name = "search"
    /\ cmd_exit.how = "QuotaExceededError"
    /\ run_no' = 2
    /\ run1' = [calls |-> remote_calls, disk |-> disk]
    /\ command' = CommandLine("search", force, FALSE, FALSE)
    /\ SearchBegin(playlist, force, TRUE, auth_ok)
    /\ UNCHANGED <<playlist, tracks_ready>>
    /\ UNCHANGED <<disk, writer, written, last, clock>>
    /\ UNCHANGED <<syncVars, extraVars, parseVars, retryVars, rateVars>>

NextSearch ==
    \/ \E doc \in CommandDocs, force \in BOOLEAN, mkdir_ok \in BOOLEAN,
          auth_ok \in BOOLEAN : SearchStart(doc, force, mkdir_ok, auth_ok)
    \/ \E sr \in SearchResponses, dr \in DurationResponses,
          save \in {"ok", "open_failed", "write_failed"} : SearchTrack(sr, dr, save)
    \/ \E force \in BOOLEAN, auth_ok \in BOOLEAN : SearchRerun(force, auth_ok)

SpecSearch == InitSearch /\ [][NextSearch]_vars

\* ------------------------------------------------ create_command at work
\* what the cache file holds for a query when create_command starts:
\* nothing, a NOT_FOUND entry, or a FOUND entry whose selected is 0, -1 (of
\* two matches), 1 (of one match), -2 (of one match) or null
CreateEntries(q) ==
    {None,
     Some(SavedEarlier(q, NOT_FOUND)),
     Some(SavedEarlier(q, FOUND)),
     Some([SavedEarlier(q, FOUND) EXCEPT !.matches = <<MatchOf("v1"), MatchOf("v2")>>,
                                         !.selected = Some(-1)]),
     Some([SavedEarlier(q, FOUND) EXCEPT !.selected = Some(1)]),
     Some([SavedEarlier(q, FOUND) EXCEPT !.selected = Some(-2)]),
     Some([SavedEarlier(q, FOUND) EXCEPT !.selected = None])}

\* the cache file when create_command starts
CreateDisks ==
    {DocumentFile(Dump(c)) : c \in {f \in [CacheQueries -> UNION {CreateEntries(q) : q \in CacheQueries}] :
                                      \A q \in CacheQueries : f[q] \in CreateEntries(q)}}
        \cup {AbsentFile, CorruptFile("top_level"), CorruptFile("not_json")}

InitCreate ==
    /\ SyncStart
    /\ remote = <<>>
    /\ disk \in CreateDisks
    /\ mgrs = [m \in Managers |-> NewManager]
    /\ writer = None
    /\ written = disk
    /\ last = NoCall
    /\ clock = 1
    /\ ParseIdle
    /\ RetryIdle
    /\ RateIdle
    /\ CmdIdle
    /\ ExtraIdle

\* create.py lines 55-66: the class of a track against the loaded cache:
\* "missing", "not_found", "ready" with its video id, or "IndexError"
ClassOfTrack(cache, track) ==
    LET entry == cache[TrackQuery(track)]
        got == GetSelectedVideoId(CacheFile(TRUE, cache), TrackQuery(track))
    IN  IF entry = None THEN [video_id |-> "", class |-> "missing"]
        ELSE IF entry[1].status = NOT_FOUND THEN [video_id |-> "", class |-> "not_found"]
        ELSE IF got.raised THEN [video_id |-> "", class |-> "IndexError"]
        ELSE IF got.value = None THEN [video_id |-> "", class |-> "missing"]
        ELSE [video_id |-> got.value[1].video_id, class |-> "ready"]

\* the numbers of the tracks of a class, in file order
TracksOfClass(cache, tracks, class) ==
    SelectSeq([k \in 1..Len(tracks) |-> k],
              LAMBDA k : ClassOfTrack(cache, tracks[k]).class = class)

\* create.py lines 39-105: parse, load the cache, classify the tracks, stop
\* on uncached tracks, ask when tracks were not found, stop on --dry-run;
\* the process is new: it has no playlist_id and its counters are not set
CreateBegin(doc, dry_run, skip_missing, confirm, mkdir_ok) ==
    LET init == EnsureInitialized(NewManager, disk, mkdir_ok)
        cache == init.mgr.cache
        ready == TracksOfClass(cache, doc.tracks, "ready")
        go == /\ cmd_pc' = "authenticating"
              /\ cmd_exit' = [code |-> None, how |-> ""]
    IN  /\ command' = CommandLine("create", FALSE, dry_run, skip_missing)
        /\ playlist' = doc
        /\ remote_calls' = <<>>
        /\ track_index' = 0
        /\ playlist_id' = None
        /\ n_added' = 0
        /\ n_failed' = 0
        /\ IF doc.raised # ""
           THEN /\ CmdEnd(1, doc.raised)
                /\ UNCHANGED <<mgrs, tracks_ready>>
           ELSE IF init.raised # ""
           THEN /\ CmdEnd(1, init.raised)
                /\ UNCHANGED <<mgrs, tracks_ready>>
           ELSE /\ mgrs' = [mgrs EXCEPT ![1] = init.mgr]
                /\ IF TracksOfClass(cache, doc.tracks, "IndexError") # <<>>
                   THEN CmdEnd(1, "IndexError") /\ UNCHANGED tracks_ready
                   ELSE /\ tracks_ready' =
                             [n \in 1..Len(ready) |->
                                [video_id |-> ClassOfTrack(cache, doc.tracks[ready[n]]).video_id,
                                 track_no |-> ready[n]]]
                        /\ IF TracksOfClass(cache, doc.tracks, "missing") # <<>>
                           THEN CmdEnd(1, "tracks_missing")
                           ELSE IF /\ TracksOfClass(cache, doc.tracks, "not_found") # <<>>
                                   /\ ~skip_missing /\ ~dry_run /\ ~confirm
                           THEN CmdEnd(0, "declined")
                           ELSE IF dry_run THEN CmdEnd(0, "dry_run")
                           ELSE go
        /\ UNCHANGED <<disk, writer, written, last, clock>>
        /\ UNCHANGED <<syncVars, gwVars, raceVars, playlists, parseVars, retryVars,
                       rateVars>>

\* create_command is invoked
CreateStart(doc, dry_run, skip_missing, confirm, mkdir_ok) ==
    /\ cmd_pc = "idle"
    /\ CreateBegin(doc, dry_run, skip_missing, confirm, mkdir_ok)
    /\ UNCHANGED <<run_no, run1>>

\* create_command is invoked again, on the same file and cache file, after
\* a run that QuotaExceededError ended
CreateRerun(dry_run, skip_missing, confirm, mkdir_ok) ==
    /\ cmd_pc = "done"
    /\ run_no = 1
    /\ command.name = "create"
    /\ cmd_exit.how = "QuotaExceededError"
    /\ run_no' = 2
    /\ run1' = [calls |-> remote_calls, disk |-> disk]
    /\ CreateBegin(playlist, dry_run, skip_missing, confirm, mkdir_ok)

\* a remote call of create_command with its outcome
CreateCall(op, track_no, outcome) ==
    RemoteCall(op, track_no, IF outcome = "ok" THEN "" ELSE outcome, None, <<>>,
               Answer(200, "", <<>>), None)

\* create.py line 111: get_authenticated_service
CreateAuthenticate(auth_ok) ==
    /\ cmd_pc = "authenticating"
    /\ remote_calls' =
         Append(remote_calls,
                CreateCall("get_authenticated_service", 0,
                           IF auth_ok THEN "ok" ELSE "AuthenticationError"))
    /\ IF auth_ok
       THEN cmd_pc' = "creating" /\ UNCHANGED cmd_exit
       ELSE CmdEnd(1, "AuthenticationError")
    /\ UNCHANGED <<command, playlist, track_index, run_no, run1, tracks_ready>>
    /\ UNCHANGED cacheVars
    /\ UNCHANGED <<syncVars, extraVars, parseVars, retryVars, rateVars>>

\* an add loop that leaves for the summary after its first pass
NextReadyOnce(done) ==
    /\ track_index' = done
    /\ IF done = Len(tracks_ready) \/ done = 1
       THEN CmdEnd(0, "complete")
       ELSE cmd_pc' = "adding" /\ UNCHANGED cmd_exit

\* the add loop goes on to the next ready track, or past the last to the
\* summary (create.py lines 138-146)
NextReady(done) ==
    /\ track_index' = done
    /\ IF done = Len(tracks_ready)
       THEN CmdEnd(0, "complete")
       ELSE cmd_pc' = "adding" /\ UNCHANGED cmd_exit

\* a create_playlist that gives back the playlist the account has already
InsertPlaylistReuse(lists) == IF lists = <<>> THEN <<<<>>>> ELSE lists

\* youtube_client.py lines 190-210: playlists().insert makes a new, empty
\* playlist of the account; its id is the response's id
InsertPlaylist(lists) == Append(lists, <<>>)

\* youtube_client.py lines 233-254: playlistItems().insert without position
\* puts the video at the end of the playlist of that id
InsertItem(lists, id, video_id) == [lists EXCEPT ![id] = Append(@, video_id)]

\* create.py lines 114-119: create_playlist, then added = 0 and failed = 0
CreatePlaylistCall(resp) ==
    /\ cmd_pc = "creating"
    /\ remote_calls' = Append(remote_calls, CreateCall("create_playlist", 0, Outcome(resp)))
    /\ IF Outcome(resp) = "ok"
       THEN /\ NextReady(0)
            /\ playlists' = InsertPlaylist(playlists)
            /\ playlist_id' = Some(Len(playlists'))
            /\ n_added' = 0
            /\ n_failed' = 0
       ELSE /\ CmdEnd(1, Outcome(resp))
            /\ UNCHANGED <<track_index, crVars>>
    /\ UNCHANGED <<command, playlist, run_no, run1, tracks_ready>>
    /\ UNCHANGED cacheVars
    /\ UNCHANGED <<syncVars, gwVars, raceVars, parseVars, retryVars, rateVars>>

\* create.py lines 122-136: one pass of the add loop; VideoUnavailableError
\* is counted and the loop goes on, QuotaExceededError exits with code 1,
\* any other error leaves the loop for the outer except clause
CreateAdd(resp) ==
    /\ cmd_pc = "adding"
    /\ remote_calls' =
         Append(remote_calls,
                CreateCall("add_video_to_playlist",
                           tracks_ready[track_index + 1].track_no, Outcome(resp)))
    /\ IF Outcome(resp) = "ok"
       THEN /\ NextReady(track_index + 1)
            /\ playlists' = InsertItem(playlists, playlist_id[1],
                                       tracks_ready[track_index + 1].video_id)
            /\ n_added' = n_added + 1
            /\ UNCHANGED n_failed
       ELSE IF Outcome(resp) = "VideoUnavailableError"
       THEN /\ NextReady(track_index + 1)
            /\ n_failed' = n_failed + 1
            /\ UNCHANGED <<n_added, playlists>>
       ELSE /\ CmdEnd(1, Outcome(resp))
            /\ UNCHANGED <<track_index, n_added, n_failed, playlists>>
    /\ UNCHANGED playlist_id
    /\ UNCHANGED <<command, playlist, run_no, run1, tracks_ready>>
    /\ UNCHANGED cacheVars
    /\ UNCHANGED <<syncVars, gwVars, raceVars, parseVars, retryVars, rateVars>>

NextCreate ==
    \/ \E doc \in CommandDocs, dry_run \in BOOLEAN, skip_missing \in BOOLEAN,
          confirm \in BOOLEAN, mkdir_ok \in BOOLEAN :
          CreateStart(doc, dry_run, skip_missing, confirm, mkdir_ok)
    \/ \E auth_ok \in BOOLEAN : CreateAuthenticate(auth_ok)
    \/ \E resp \in Responses : CreatePlaylistCall(resp)
    \/ \E resp \in Responses : CreateAdd(resp)

SpecCreate == InitCreate /\ [][NextCreate]_vars

\* create_command with its re-run
NextRecreate ==
    \/ \E doc \in CommandDocs, dry_run \in BOOLEAN, skip_missing \in BOOLEAN,
          confirm \in BOOLEAN, mkdir_ok \in BOOLEAN :
          CreateStart(doc, dry_run, skip_missing, confirm, mkdir_ok)
    \/ \E auth_ok \in BOOLEAN : CreateAuthenticate(auth_ok)
    \/ \E resp \in Responses : CreatePlaylistCall(resp)
    \/ \E resp \in Responses : CreateAdd(resp)
    \/ \E dry_run \in BOOLEAN, skip_missing \in BOOLEAN, confirm \in BOOLEAN,
          mkdir_ok \in BOOLEAN : CreateRerun(dry_run, skip_missing, confirm, mkdir_ok)

SpecRecreate == InitCreate /\ [][NextRecreate]_vars

\* ------------------------------------------- one run of any command
\* no command has been invoked: sync_command is run against any remote
\* playlist, search_command and create_command against any cache file
InitCommands ==
    /\ SyncStart
    /\ disk \in SearchDisks \cup CreateDisks
    /\ remote = <<>> \/ disk = AbsentFile
    /\ mgrs = [m \in Managers |-> NewManager]
    /\ writer = None
    /\ written = disk
    /\ last = NoCall
    /\ clock = 1
    /\ ParseIdle
    /\ RetryIdle
    /\ RateIdle
    /\ CmdIdle
    /\ ExtraIdle

\* sync_command runs against the remote playlists, with no cache file of
\* the other commands
SyncRuns == cmd_pc = "idle" /\ disk = AbsentFile

\* search_command runs against the cache files of SearchDisks
SearchRuns ==
    /\ pc = "idle" /\ remote = <<>>
    /\ cmd_pc = "idle" => disk \in SearchDisks

\* create_command runs against the cache files of CreateDisks
CreateRuns ==
    /\ pc = "idle" /\ remote = <<>>
    /\ cmd_pc = "idle" => disk \in CreateDisks

NextCommands ==
    \/ \E pg, rm, dr \in BOOLEAN : SyncRuns /\ Invoke(Args(pg, rm, dr))
    \/ \E doc \in Documents : \E c \in CacheFilesFor(doc) :
          SyncRuns /\ Prepare(doc, c)
    \/ \E ok \in BOOLEAN : SyncRuns /\ Authenticate(ok)
    \/ \E resp \in Responses : SyncRuns /\ FetchAndPlan(resp)
    \/ \E resp \in Responses : SyncRuns /\ AddStep(resp)
    \/ \E resp \in Responses : SyncRuns /\ RemoveStep(resp)
    \/ \E doc \in CommandDocs, force \in BOOLEAN, mkdir_ok \in BOOLEAN,
          auth_ok \in BOOLEAN :
          SearchRuns /\ SearchStart(doc, force, mkdir_ok, auth_ok)
    \/ \E sr \in SearchResponses, dr \in DurationResponses,
          save \in {"ok", "open_failed", "write_failed"} :
          SearchRuns /\ SearchTrack(sr, dr, save)
    \/ \E doc \in CommandDocs, dry_run \in BOOLEAN, skip_missing \in BOOLEAN,
          confirm \in BOOLEAN, mkdir_ok \in BOOLEAN :
          CreateRuns /\ CreateStart(doc, dry_run, skip_missing, confirm, mkdir_ok)
    \/ \E auth_ok \in BOOLEAN : CreateRuns /\ CreateAuthenticate(auth_ok)
    \/ \E resp \in Responses : CreateRuns /\ CreatePlaylistCall(resp)
    \/ \E resp \in Responses : CreateRuns /\ CreateAdd(resp)

SpecCommands == InitCommands /\ [][NextCommands]_vars

\* ------------------------------------------- get_playlist_items at work
InitGateway ==
    /\ SyncStart
    /\ remote = <<>>
    /\ CacheIdle
    /\ ParseIdle
    /\ RetryIdle
    /\ RateIdle
    /\ CmdIdle
    /\ pages \in Remotes
    /\ page_token = None
    /\ fetched = <<>>
    /\ page_requests = <<>>
    /\ listing = [raised |-> "", pc |-> "idle", result |-> None]
    /\ http_error = None
    /\ CrIdle
    /\ RaceIdle

GatewayFrame ==
    UNCHANGED <<syncVars, cacheVars, parseVars, retryVars, rateVars, cmdVars, crVars,
                raceVars>>

\* youtube_client.py lines 271-272: items = [], page_token = None
GetPlaylistItems ==
    /\ listing.pc = "idle"
    /\ listing' = [listing EXCEPT !.pc = "paging"]
    /\ fetched' = <<>>
    /\ page_token' = None
    /\ UNCHANGED <<pages, page_requests, http_error>>
    /\ GatewayFrame

\* youtube_client.py lines 274-299: one turn of the loop whose request is
\* answered with a page; its items are appended, its nextPageToken becomes
\* page_token, and without one the loop ends and items is returned
PageAnswered ==
    /\ listing.pc = "paging"
    /\ Len(page_requests) < MaxPages
    /\ LET response == pages[page_token]
           items == Extend(fetched, response)
       IN  /\ page_requests' = Append(page_requests, page_token)
           /\ fetched' = items
           /\ page_token' = response.next
           /\ listing' = IF Falsy(response.next)
                         THEN [raised |-> "", pc |-> "returned", result |-> Some(items)]
                         ELSE listing
    /\ UNCHANGED <<pages, http_error>>
    /\ GatewayFrame

\* youtube_client.py lines 277-285: one turn of the loop whose request
\* raises an HttpError; _handle_http_error raises and the call is over
PageFailed(error) ==
    /\ listing.pc = "paging"
    /\ Len(page_requests) < MaxPages
    /\ page_requests' = Append(page_requests, page_token)
    /\ http_error' = Some(error)
    /\ listing' = [raised |-> HandleError(error), pc |-> "raised", result |-> None]
    /\ UNCHANGED <<pages, page_token, fetched>>
    /\ GatewayFrame

NextGateway ==
    \/ GetPlaylistItems
    \/ PageAnswered
    \/ \E error \in HttpErrors : PageFailed(error)

\* the loop of get_playlist_items goes on as long as requests are answered
SpecGateway == InitGateway /\ [][NextGateway]_vars /\ WF_vars(NextGateway)

\* ------------------------------------------ two sync runs on one playlist
\* the cache files search_command leaves for a document: every track has a
\* NOT_FOUND entry or a FOUND entry with its selected match
RaceCacheFiles(doc) ==
    {CacheFile(TRUE, e) :
       e \in [QueriesOf(doc) -> {Some(CacheEntry(NOT_FOUND, <<>>, None)),
                                 Some(CacheEntry(FOUND, <<"v1">>, Some(0))),
                                 Some(CacheEntry(FOUND, <<"v1", "v2">>, Some(1)))}]}

\* the answers of the remote API to the calls of the two runs
RaceResponses == {OK, Response(404, "videoNotFound"), Response(403, "quotaExceeded")}

\* two non-dry-run sync runs were invoked with the same file, cache file,
\* flags and playlist; each has gone through sync.py lines 53-97 and holds
\* the same desired list; neither has called get_playlist_items
InitRace ==
    /\ run = 1
    /\ pc = "prepared"
    /\ \E doc \in {d \in Documents : d.ok} : \E c \in RaceCacheFiles(doc) :
         \E rm \in BOOLEAN :
           /\ args = Args(TRUE, rm, FALSE)
           /\ file = doc
           /\ cache_file = c
           /\ desired = SortByPosition(Classify(doc.tracks, c).desired)
           /\ not_found = Classify(doc.tracks, c).not_found
    /\ missing_cache = <<>>
    /\ remote \in RemotePlaylists
    /\ remote0 = remote
    /\ next_item_id = Len(remote) + 1
    /\ planned = FALSE
    /\ current_items = <<>>
    /\ to_add = <<>>
    /\ to_remove = <<>>
    /\ unknown = <<>>
    /\ i = 0
    /\ j = 0
    /\ calls = <<>>
    /\ exit_code = None
    /\ ended = ""
    /\ first = RunRecord(None, "", <<>>)
    /\ CacheIdle
    /\ ParseIdle
    /\ RetryIdle
    /\ RateIdle
    /\ CmdIdle
    /\ GwIdle
    /\ CrIdle
    /\ procs = [p \in Procs |-> [IdleRun EXCEPT !.pc = "authenticated"]]

\* what the steps of the two runs leave alone
RaceFrame ==
    /\ UNCHANGED <<run, pc, args, file, cache_file, remote0, desired, not_found,
                   missing_cache, planned, current_items, to_add, to_remove,
                   unknown, i, j, calls, exit_code, ended, first>>
    /\ UNCHANGED <<cacheVars, parseVars, retryVars, rateVars, cmdVars, gwVars, crVars>>

\* the loop a run goes to after loop n, and its exit code when none is left
RunAfter(r, n) ==
    LET phase == PhaseAfter(n, r.to_add, r.to_remove)
    IN  [r EXCEPT !.pc = phase,
                  !.exit_code = IF phase = "done" THEN Some(0) ELSE None]

\* sync.py lines 100-163 in run p: get_playlist_items and the plan computed
\* from the items it returned; adds_before and other_pc note how far the
\* runs were at that moment
RaceFetch(p, resp) ==
    /\ procs[p].pc = "authenticated"
    /\ LET out == Outcome(resp)
           other == CHOOSE q \in Procs : q # p
           called == [procs[p] EXCEPT
                        !.calls = Append(@, Call("get_playlist_items", "", 0, out))]
           adds == ToAdd(desired, remote)
           removes == ToRemove(desired, remote, args.remove_unknown)
           plan == [called EXCEPT !.current_items = remote,
                                  !.to_add = adds,
                                  !.to_remove = removes,
                                  !.unknown = Unknown(desired, remote, args.remove_unknown),
                                  !.adds_before = procs[1].i + procs[2].i,
                                  !.other_pc = procs[other].pc]
       IN  procs' = [procs EXCEPT ![p] =
                       IF out # "ok"
                       THEN [called EXCEPT !.pc = "done", !.exit_code = Some(1)]
                       ELSE IF AlreadySynchronized(adds, removes) \/ DryRunStops(args)
                       THEN [plan EXCEPT !.pc = "done", !.exit_code = Some(0)]
                       ELSE RunAfter(plan, 0)]
    /\ UNCHANGED <<remote, next_item_id>>
    /\ RaceFrame

\* sync.py lines 169-179 in run p: one pass of the add loop
RaceAdd(p, resp) ==
    /\ procs[p].pc = "adding"
    /\ LET r == procs[p]
           out == Outcome(resp)
           vid == r.to_add[r.i + 1].video_id
           called == [r EXCEPT
                        !.calls = Append(@, Call("add_video_to_playlist", vid, 0, out)),
                        !.i = @ + 1]
       IN  /\ IF out = "ok"
              THEN /\ remote' = RemoteInsertAt(remote, next_item_id, vid,
                                               AddPosition(r.to_add[r.i + 1]))
                   /\ next_item_id' = next_item_id + 1
              ELSE UNCHANGED <<remote, next_item_id>>
           /\ procs' = [procs EXCEPT ![p] =
                          IF ~AddContinues(out)
                          THEN [called EXCEPT !.pc = "done", !.exit_code = Some(1)]
                          ELSE IF called.i < Len(r.to_add) THEN called
                          ELSE RunAfter(called, PositionOf("adding"))]
    /\ RaceFrame

\* sync.py lines 182-190 in run p: one pass of the remove loop
RaceRemove(p, resp) ==
    /\ procs[p].pc = "removing"
    /\ LET r == procs[p]
           out == Outcome(resp)
           it == r.to_remove[r.j + 1]
           called == [r EXCEPT
                        !.calls = Append(@, Call("remove_playlist_item", it.video_id,
                                                 it.item_id, out)),
                        !.j = @ + 1]
       IN  /\ remote' = IF out = "ok" THEN RemoteDelete(remote, it.item_id) ELSE remote
           /\ procs' = [procs EXCEPT ![p] =
                          IF ~RemoveContinues(out)
                          THEN [called EXCEPT !.pc = "done", !.exit_code = Some(1)]
                          ELSE IF called.j < Len(r.to_remove) THEN called
                          ELSE RunAfter(called, PositionOf("removing"))]
    /\ UNCHANGED next_item_id
    /\ RaceFrame

NextRace ==
    \/ \E p \in Procs, resp \in RaceResponses : RaceFetch(p, resp)
    \/ \E p \in Procs, resp \in RaceResponses : RaceAdd(p, resp)
    \/ \E p \in Procs, resp \in RaceResponses : RaceRemove(p, resp)

SpecRace == InitRace /\ [][NextRace]_vars

\* ------------------------------------------------- vocabulary of the claims
IsAdd(c) == c.op = "add_video_to_playlist"

IsRemove(c) == c.op = "remove_playlist_item"

IsMutation(c) == IsAdd(c) \/ IsRemove(c)

AddCalls(log) == SelectSeq(log, IsAdd)

RemoveCalls(log) == SelectSeq(log, IsRemove)

NoMutation(log) == \A p \in 1..Len(log) : ~IsMutation(log[p])

AllAddsOk(log) == \A p \in 1..Len(log) : IsAdd(log[p]) => log[p].result = "ok"

VideoIds(items) == [k \in 1..Len(items) |-> items[k].video_id]

DesiredSet == {desired[k].video_id : k \in 1..Len(desired)}

\* the current run has gone through parsing and classification
Prepared == pc \notin {"idle", "validated"} /\ args.playlist_given

\* a cache entry that resolves to a video: FOUND, selected a valid index
ValidlyResolved(e) ==
    /\ e.status = FOUND
    /\ e.selected # None
    /\ e.selected[1] >= 0
    /\ e.selected[1] < Len(e.matches)

\* a track with no cache entry, or a FOUND entry with no valid selected
TrackUnresolved(c, q) ==
    \/ c.entries[q] = None
    \/ c.entries[q][1].status = FOUND /\ ~ValidlyResolved(c.entries[q][1])

TrackNotFound(c, q) == c.entries[q] # None /\ c.entries[q][1].status = NOT_FOUND

\* the three preconditions of sync, on the inputs of a prepared run
PreconditionsHold ==
    /\ args.playlist_given
    /\ file.ok
    /\ \A k \in 1..Len(file.tracks) : ~TrackUnresolved(cache_file, file.tracks[k].query)

\* out is the items of in that satisfy P, in the order of in
IsFilterOf(out, in, P(_)) ==
    LET hits == {k \in 1..Len(in) : P(in[k])}
        nth(n) == CHOOSE k \in hits : Cardinality({m \in hits : m <= k}) = n
    IN  /\ Len(out) = Cardinality(hits)
        /\ \A n \in 1..Len(out) : out[n] = in[nth(n)]

Unwanted(it) == it.video_id \notin DesiredSet

\* ------------------------------------------------------------------ claims

C2_AddBeforeRemove ==
    /\ \A p, q \in 1..Len(calls) : (IsRemove(calls[p]) /\ IsAdd(calls[q])) => q < p
    /\ (/\ pc = "done"
        /\ to_remove # <<>>
        /\ \E p \in 1..Len(calls) :
              IsAdd(calls[p]) /\ calls[p].result = "QuotaExceededError")
           => RemoveCalls(calls) = <<>>

\* C2 witness: a finished run that made add calls and remove calls
C2_Witness ==
    /\ pc = "done"
    /\ AddCalls(calls) # <<>>
    /\ RemoveCalls(calls) # <<>>

\* C3: without --remove-unknown, to_remove is empty, no remove call is made
\* and unknown is exactly the remote items whose video is not desired; with
\* it, to_remove is exactly those items, in remote order, and only they are
\* removed.
C3_PurgePolicy ==
    planned =>
        /\ \A p \in 1..Len(calls) :
              IsRemove(calls[p]) =>
                 \E n \in 1..Len(to_remove) : to_remove[n].item_id = calls[p].item_id
        /\ IF args.remove_unknown
           THEN IsFilterOf(to_remove, current_items, Unwanted)
           ELSE /\ to_remove = <<>>
                /\ RemoveCalls(calls) = <<>>
                /\ IsFilterOf(unknown, current_items, Unwanted)

\* C3 witness: purge on, some remote items scheduled for removal, some kept
C3_Witness ==
    /\ planned
    /\ args.remove_unknown
    /\ to_remove # <<>>
    /\ Len(to_remove) < Len(current_items)
    /\ RemoveCalls(calls) # <<>>

\* C4 as stated: a --dry-run run makes no add or remove call and exits with
\* code 0 when the preconditions hold.
C4_DryRunAsStated ==
    args.dry_run =>
        /\ NoMutation(calls)
        /\ remote = remote0
        /\ (pc = "done" /\ PreconditionsHold) => exit_code = Some(0)

\* C4 amended: a --dry-run run makes no add or remove call, whatever the
\* plan, and exits with code 0 when the preconditions hold and the
\* authentication and the playlist fetch succeed.
C4_DryRun ==
    args.dry_run =>
        /\ NoMutation(calls)
        /\ remote = remote0
        /\ (/\ pc = "done"
            /\ PreconditionsHold
            /\ \E p \in 1..Len(calls) :
                  calls[p].op = "get_playlist_items" /\ calls[p].result = "ok")
             => exit_code = Some(0)

\* C4 witness: a dry run that ended with pending adds and pending removes
C4_Witness ==
    /\ args.dry_run
    /\ ended = "dry_run"
    /\ to_add # <<>>
    /\ to_remove # <<>>

\* C5: when no playlist identifier is given, or the source fails to parse,
\* or a track has no cache entry or a FOUND entry whose selected is absent
\* or out of range, the command exits with code 1 and has made no remote
\* call.
C5_PreconditionsFatal ==
    (\/ pc # "idle" /\ ~args.playlist_given
     \/ Prepared /\ ~PreconditionsHold)
        => /\ pc = "done"
           /\ exit_code = Some(1)
           /\ calls = <<>>

\* C6: a track whose cache entry is NOT_FOUND is put in not_found, never in
\* desired or missing_cache, causes no add call and by itself never makes
\* the run exit with the missing-cache failure.
C6_NotFoundNeverBlocks ==
    (Prepared /\ ended \notin {"ParseError", "CacheError", "IndexError"}) =>
        LET tracks == file.tracks
            nf(k) == TrackNotFound(cache_file, tracks[k].query)
        IN  /\ \A k \in 1..Len(tracks) :
                  nf(k) =>
                     /\ \E n \in 1..Len(not_found) : not_found[n] = tracks[k]
                     /\ \A n \in 1..Len(desired) : desired[n].track # tracks[k]
                     /\ \A n \in 1..Len(missing_cache) : missing_cache[n] # tracks[k]
            /\ Len(AddCalls(calls)) + Len(not_found) <= Len(tracks)
            /\ ended = "missing_cache"
                  => \E n \in 1..Len(missing_cache) :
                        ~TrackNotFound(cache_file, missing_cache[n].query)
            /\ (\A k \in 1..Len(tracks) : nf(k))
                  => (AddCalls(calls) = <<>> /\ ended # "missing_cache")

\* C6 witness: a run with a NOT_FOUND track and a resolved track that went
\* through to the end and added the resolved one
C6_Witness ==
    /\ Prepared
    /\ not_found # <<>>
    /\ desired # <<>>
    /\ ended = "complete"
    /\ AddCalls(calls) # <<>>

\* C7 as stated: when an add raises VideoUnavailableError, every later
\* element of to_add is still attempted, the remove phase still runs and the
\* command ends with exit code 0.
C7_AddIsolationAsStated ==
    (/\ pc = "done"
     /\ \E p \in 1..Len(calls) :
           IsAdd(calls[p]) /\ calls[p].result = "VideoUnavailableError")
        => /\ Len(AddCalls(calls)) = Len(to_add)
           /\ Len(RemoveCalls(calls)) = Len(to_remove)
           /\ exit_code = Some(0)

\* C7 amended: VideoUnavailableError of an add never ends the run; when an
\* add raises it and no call of the run raises any other error, every
\* element of to_add is attempted, the remove phase runs through and the
\* command ends with exit code 0.
C7_AddIsolation ==
    /\ (calls # <<>> /\ IsAdd(calls[Len(calls)])
           /\ calls[Len(calls)].result = "VideoUnavailableError")
          => (exit_code # Some(1) /\ ended # "VideoUnavailableError")
    /\ (/\ pc = "done"
        /\ \E p \in 1..Len(calls) :
              IsAdd(calls[p]) /\ calls[p].result = "VideoUnavailableError"
        /\ \A p \in 1..Len(calls) :
              \/ calls[p].result = "ok"
              \/ IsAdd(calls[p]) /\ calls[p].result = "VideoUnavailableError")
          => /\ Len(AddCalls(calls)) = Len(to_add)
             /\ Len(RemoveCalls(calls)) = Len(to_remove)
             /\ exit_code = Some(0)

\* C7 witness: the first add was unavailable, a later add and a remove were
\* made, and the run ended with code 0
C7_Witness ==
    /\ pc = "done"
    /\ exit_code = Some(0)
    /\ Len(calls) >= 5
    /\ IsAdd(calls[3]) /\ calls[3].result = "VideoUnavailableError"
    /\ IsAdd(calls[4]) /\ calls[4].result = "ok"
    /\ RemoveCalls(calls) # <<>>

\* C8: when remove_playlist_item raises VideoUnavailableError for an element
\* of to_remove, the element is skipped and the run is not aborted.
C8_RemoveIsolation ==
    (calls # <<>> /\ IsRemove(calls[Len(calls)])
        /\ calls[Len(calls)].result = "VideoUnavailableError")
       => (exit_code # Some(1) /\ ended # "VideoUnavailableError")

\* C9: when an add or remove call raises QuotaExceededError, no further call
\* is made in the run, the command exits with code 1, and the remote
\* playlist is the one of the start of the run with the completed removes
\* and adds applied.
C9_QuotaAbort ==
    \A p \in 1..Len(calls) :
        (IsMutation(calls[p]) /\ calls[p].result = "QuotaExceededError") =>
            LET removed == {calls[q].item_id :
                              q \in {r \in 1..Len(calls) :
                                       IsRemove(calls[r]) /\ calls[r].result = "ok"}}
                added == SelectSeq(calls, LAMBDA c : IsAdd(c) /\ c.result = "ok")
            IN  /\ p = Len(calls)
                /\ pc = "done"
                /\ exit_code = Some(1)
                /\ VideoIds(remote)
                     = VideoIds(SelectSeq(remote0, LAMBDA it : it.item_id \notin removed))
                         \o VideoIds(added)

\* C9 witness: a run stopped by the quota after a completed add and a
\* completed remove
C9_Witness ==
    /\ calls # <<>>
    /\ IsRemove(calls[Len(calls)])
    /\ calls[Len(calls)].result = "QuotaExceededError"
    /\ \E p \in 1..Len(calls) : IsAdd(calls[p]) /\ calls[p].result = "ok"
    /\ \E p \in 1..Len(calls) : IsRemove(calls[p]) /\ calls[p].result = "ok"

\* C10: whenever the computed to_add and to_remove are both empty, the run
\* makes no remote call after the fetch and exits with code 0, with or
\* without --dry-run.
C10_SynchronizedNoOp ==
    (planned /\ to_add = <<>> /\ to_remove = <<>>)
        => /\ pc = "done"
           /\ exit_code = Some(0)
           /\ calls[Len(calls)].op = "get_playlist_items"
           /\ remote = remote0

\* C10 witness: a run without --dry-run whose desired videos are all remote
C10_Witness ==
    /\ planned
    /\ ~args.dry_run
    /\ desired # <<>>
    /\ current_items # <<>>
    /\ to_add = <<>>
    /\ to_remove = <<>>
    /\ pc = "done"

\* ------------------------------------------------------------ claims 11-20

\* the classification loop of sync.py ran over every track
Classified == Prepared /\ file.ok /\ cache_file.valid /\ ended # "IndexError"

\* number of indices of s whose element satisfies P
Count(s, P(_)) == Cardinality({k \in 1..Len(s) : P(s[k])})

InSeq(x, s) == \E k \in 1..Len(s) : s[k] = x

\* a desired tuple whose video is the video of a remote item
AlreadyPresent(d) == \E k \in 1..Len(current_items) : current_items[k].video_id = d.video_id

\* a remote item whose video is desired
AlreadyDesired(it) == it.video_id \in DesiredSet

\* C11: classification is a partition. Each source track is in exactly one
\* of desired, not_found and missing_cache; in a computed plan each desired
\* tuple is in exactly one of to_add and already-present and each remote
\* item is in exactly one of to_remove, unknown and already-desired, so
\* |to_add| + |already-present| + |not_found| is the number of tracks and
\* |to_remove| + |unknown| + |already-desired| is the length of the remote.
C11_Partition ==
    /\ Classified =>
         /\ \A k \in 1..Len(file.tracks) :
              LET t == file.tracks[k]
                  inD == IF \E n \in 1..Len(desired) : desired[n].track = t THEN 1 ELSE 0
                  inN == IF InSeq(t, not_found) THEN 1 ELSE 0
                  inM == IF InSeq(t, missing_cache) THEN 1 ELSE 0
              IN  inD + inN + inM = 1
         /\ Len(desired) + Len(not_found) + Len(missing_cache) = Len(file.tracks)
    /\ planned =>
         /\ missing_cache = <<>>
         /\ \A n \in 1..Len(desired) :
              InSeq(desired[n], to_add) # AlreadyPresent(desired[n])
         /\ \A k \in 1..Len(current_items) :
              LET it == current_items[k]
                  inR == IF InSeq(it, to_remove) THEN 1 ELSE 0
                  inU == IF InSeq(it, unknown) THEN 1 ELSE 0
                  inD == IF AlreadyDesired(it) THEN 1 ELSE 0
              IN  inR + inU + inD = 1
         /\ Len(to_add) + Count(desired, AlreadyPresent) + Len(not_found)
              = Len(file.tracks)
         /\ Len(to_remove) + Len(unknown) + Count(current_items, AlreadyDesired)
              = Len(current_items)
         /\ current_items = remote0

\* C11 witness: a plan with a tuple to add, a tuple already present, an item
\* to remove and an item already desired
C11_Witness ==
    /\ planned
    /\ to_add # <<>>
    /\ Count(desired, AlreadyPresent) > 0
    /\ to_remove # <<>>
    /\ Count(current_items, AlreadyDesired) > 0

\* the desired tuples that resolve to video v
TracksOf(v) == Count(desired, LAMBDA d : d.video_id = v)

\* the add calls of the run for video v
AddCallsOf(v) == Count(calls, LAMBDA c : IsAdd(c) /\ c.video_id = v)

\* the items of the remote playlist that hold video v
ItemsOf(items, v) == Count(items, LAMBDA it : it.video_id = v)

\* a video two or more tracks resolve to and that no remote item holds
DuplicateMissing(v) == planned /\ TracksOf(v) >= 2 /\ ItemsOf(current_items, v) = 0

\* C12 as stated: when two or more tracks resolve to the same video_id and
\* that video_id is not in the remote playlist, one sync run issues exactly
\* one add call for it and the playlist gains one item for it.
C12_DuplicatesCollapseAsStated ==
    \A v \in RemoteVideos :
        (DuplicateMissing(v) /\ ended = "complete" /\ AllAddsOk(calls))
            => (AddCallsOf(v) = 1 /\ ItemsOf(remote, v) = 1)

\* C12: when two or more tracks resolve to the same video_id and that
\* video_id is not in the remote playlist, to_add holds one tuple per such
\* track and a sync run that goes through its add loop issues one add call
\* per such track; with every add succeeding the playlist gains one item
\* per such track.
C12_DuplicatesCollapse ==
    \A v \in RemoteVideos :
        DuplicateMissing(v) =>
            /\ Count(to_add, LAMBDA d : d.video_id = v) = TracksOf(v)
            /\ ended = "complete" =>
                 /\ AddCallsOf(v) = TracksOf(v)
                 /\ AllAddsOk(calls) => ItemsOf(remote, v) = TracksOf(v)

\* C12 witness: a completed run that added the same video once per track
C12_Witness ==
    \E v \in RemoteVideos :
        /\ DuplicateMissing(v)
        /\ ended = "complete"
        /\ AllAddsOk(calls)
        /\ AddCallsOf(v) = 2
        /\ ItemsOf(remote, v) = 2

\* the videos of the add calls of the run, in call order
AddedVideos == [k \in 1..Len(AddCalls(calls)) |-> AddCalls(calls)[k].video_id]

\* a desired tuple whose video is the video of no fetched remote item
NotRemote(d) == ~AlreadyPresent(d)

\* C13: desired is sorted by ascending track position; to_add is exactly
\* the subsequence of desired whose video_id is the video_id of no remote
\* item; the add calls are issued in the order of to_add; a desired
\* video_id already present remotely gets neither an add nor a remove.
C13_ToAddOrder ==
    /\ \A n \in 1..Len(desired) : \A m \in 1..Len(desired) :
         n < m => desired[n].position <= desired[m].position
    /\ planned =>
         /\ IsFilterOf(to_add, desired, NotRemote)
         /\ Len(AddedVideos) <= Len(to_add)
         /\ AddedVideos = SubSeq(VideoIds(to_add), 1, Len(AddedVideos))
         /\ ended = "complete" => Len(AddedVideos) = Len(to_add)
         /\ \A n \in 1..Len(desired) :
              AlreadyPresent(desired[n]) =>
                  /\ AddCallsOf(desired[n].video_id) = 0
                  /\ \A p \in 1..Len(calls) :
                       IsRemove(calls[p]) => calls[p].video_id # desired[n].video_id
                  /\ \A k \in 1..Len(to_remove) :
                       to_remove[k].video_id # desired[n].video_id

\* C13 witness: desired [(1, v1), (2, v2)] against a remote that holds v1
\* only: the completed run made one add call, for the second tuple, and no
\* remove call
C13_Witness ==
    /\ planned
    /\ ended = "complete"
    /\ Len(desired) = 2
    /\ VideoIds(current_items) = <<desired[1].video_id>>
    /\ to_add = <<desired[2]>>
    /\ to_remove = <<>>
    /\ AddedVideos = <<desired[2].video_id>>
    /\ RemoveCalls(calls) = <<>>

\* the items of the start of the run that the remote playlist still holds
Surviving == SelectSeq(remote0, LAMBDA it : InSeq(it, remote))

\* the items the remote playlist gained during the run
Gained == SelectSeq(remote, LAMBDA it : ~InSeq(it, remote0))

\* C14: in every sync run update_playlist_item_position is never called,
\* add_video_to_playlist is never given a position (the items of the start
\* keep their relative order and the added items come after them), and no
\* remote item whose video_id is desired is removed: every desired video
\* present at the start is present at every later point of the run.
C14_NoReorderNoLoss ==
    /\ \A p \in 1..Len(calls) :
         calls[p].op \in {"get_authenticated_service", "get_playlist_items",
                          "add_video_to_playlist", "remove_playlist_item"}
    /\ \A k \in 1..Len(to_add) : AddPosition(to_add[k]) = None
    /\ remote = Surviving \o Gained
    /\ Classified =>
         /\ \A p \in 1..Len(calls) :
              IsRemove(calls[p]) => calls[p].video_id \notin DesiredSet
         /\ \A k \in 1..Len(remote0) :
              remote0[k].video_id \in DesiredSet => InSeq(remote0[k], remote)

\* C14 witness: a completed run that added a video and removed an item while
\* an item of the start held a desired video
C14_Witness ==
    /\ ended = "complete"
    /\ \E p \in 1..Len(calls) : IsAdd(calls[p]) /\ calls[p].result = "ok"
    /\ \E p \in 1..Len(calls) : IsRemove(calls[p]) /\ calls[p].result = "ok"
    /\ \E k \in 1..Len(remote0) : remote0[k].video_id \in DesiredSet
    /\ Gained # <<>>
    /\ Surviving # <<>>

\* the set of videos held by the items of a playlist
VideoSet(items) == {items[k].video_id : k \in 1..Len(items)}

\* every add and remove call of the log succeeded
AllMutationsOk(log) == \A p \in 1..Len(log) : IsMutation(log[p]) => log[p].result = "ok"

\* a sync without --dry-run that ran to its end
RanToEnd == ended \in {"complete", "synchronized"} /\ ~args.dry_run

\* C15: when a sync without --dry-run runs to its end with every mutation
\* call succeeding, the videos of the remote playlist are a superset of the
\* desired set; with --remove-unknown they are the desired set; without it
\* every item present at the start is still present.
C15_Convergence ==
    (RanToEnd /\ AllMutationsOk(calls)) =>
        /\ DesiredSet \subseteq VideoSet(remote)
        /\ args.remove_unknown => VideoSet(remote) = DesiredSet
        /\ ~args.remove_unknown =>
             \A k \in 1..Len(remote0) : InSeq(remote0[k], remote)

\* C15 witness: a completed run with --remove-unknown whose adds and removes
\* all succeeded
C15_Witness ==
    /\ RanToEnd
    /\ ended = "complete"
    /\ args.remove_unknown
    /\ AllMutationsOk(calls)
    /\ AddCalls(calls) # <<>>
    /\ RemoveCalls(calls) # <<>>
    /\ VideoSet(remote) = DesiredSet
    /\ VideoSet(remote0) # DesiredSet

\* the cases in which C17 says get_selected_video_id returns absent
SelectedAbsentCase(e) ==
    \/ e = None
    \/ e[1].status = NOT_FOUND
    \/ e[1].selected = None
    \/ e[1].selected[1] >= Len(e[1].matches)

\* C17: on a loaded cache get_selected_video_id(query) never raises; it
\* returns absent exactly when the entry is absent, its status is NOT_FOUND,
\* selected is absent or selected >= len(matches), and matches[selected]
\* (the video of that match) in every other case.
C17_SelectedVideoId ==
    (Prepared /\ file.ok /\ cache_file.valid) =>
        \A k \in 1..Len(file.tracks) :
            LET q == file.tracks[k].query
                e == Get(cache_file, q)
                r == GetSelectedVideoId(cache_file, q)
            IN  /\ ~r.raised
                /\ (r.value = None) = SelectedAbsentCase(e)
                /\ ~SelectedAbsentCase(e) =>
                     r.value = PyIndex(e[1].matches, e[1].selected[1]).value

\* the last CacheManager call was save(e) on an instance that is still alive
LastSave(result) == last.op = "save" /\ last.result = result

\* what get(query) returns on manager m now (cache.py lines 81-84)
SameInstanceGet(m, query) ==
    LET init == EnsureInitialized(mgrs[m], disk, TRUE)
    IN  [raised |-> init.raised, value |-> init.mgr.cache[query]]

\* what get(query) returns on a new CacheManager that loads the file now
FreshInstanceGet(query) ==
    LET init == EnsureInitialized(NewManager, disk, TRUE)
    IN  [raised |-> init.raised, value |-> init.mgr.cache[query]]

\* C16: for every valid entry e, after save(e) a get(e.query) returns an
\* entry equal to e in every field, on the same CacheManager and on a new
\* CacheManager that loads the file save wrote.
C16_RoundTrip ==
    LastSave("ok") =>
        /\ SameInstanceGet(last.mgr, last.query) = [raised |-> "", value |-> last.entry]
        /\ FreshInstanceGet(last.query) = [raised |-> "", value |-> last.entry]

\* C16 witness: a completed save of a FOUND entry with two matches, the
\* second selected, next to a saved NOT_FOUND entry and an entry whose
\* searched_at has microseconds
C16_Witness ==
    /\ LastSave("ok")
    /\ last.entry[1].status = FOUND
    /\ last.entry[1].selected = Some(1)
    /\ \E q \in CacheQueries :
         /\ mgrs[last.mgr].cache[q] # None
         /\ mgrs[last.mgr].cache[q][1].status = NOT_FOUND
    /\ \E m \in Managers : \E q \in CacheQueries :
         /\ mgrs[m].cache[q] # None
         /\ mgrs[m].cache[q][1].searched_at.micro # 0

\* C18: at every point of a sequence of saves on a file that was absent or
\* a cache document at the start, at which no save is under way, a kill or an I/O failure in the middle of a save included, the
\* cache file is absent or a complete parseable document, the one the last
\* completed save wrote; no later process finds a partial file.
C18_NoPartialFile ==
    (writer = None /\ ~Load(written).raised) =>
        /\ disk.kind \in {"absent", "document"}
        /\ disk = written
        /\ FreshInstanceGet(1).raised = ""

\* C19: when the file write inside save(e) fails with an I/O error, save
\* raises CacheError, a later get(e.query) on the same instance returns e,
\* and a new process that loads the file does not see e.
C19_FailedPersistence ==
    (last.op = "save" /\ last.cause \in {"open", "write"} /\ last.result # "killed") =>
        /\ last.result = "CacheError"
        /\ SameInstanceGet(last.mgr, last.query) = [raised |-> "", value |-> last.entry]
        /\ \/ FreshInstanceGet(last.query).raised # ""
           \/ FreshInstanceGet(last.query).value # last.entry

\* C19 witness: the open of _save failed for an entry that replaces a loaded
\* one; the file is still the complete document of the earlier run
C19_Witness ==
    /\ LastSave("CacheError")
    /\ last.cause = "open"
    /\ disk.kind = "document"
    /\ FreshInstanceGet(last.query).raised = ""
    /\ FreshInstanceGet(last.query).value = Some(EarlierEntry)
    /\ mgrs[last.mgr].cache[last.query] = last.entry

\* the queries a dict has a key for
KeysOf(cache) == {q \in CacheQueries : cache[q] # None}

\* C20: after every successful save the mapping stored in the cache file
\* equals the whole in-memory mapping of that CacheManager, one entry per
\* query, the saved entry in the place of any earlier entry of its query.
C20_WriteThrough ==
    LastSave("ok") =>
        /\ disk.kind = "document"
        /\ KeysOf(disk.data) = KeysOf(mgrs[last.mgr].cache)
        /\ Load(disk) = [raised |-> FALSE, cache |-> mgrs[last.mgr].cache]
        /\ mgrs[last.mgr].cache[last.query] = last.entry

\* C20 witness: a completed save that replaced the entry of an earlier run,
\* which another CacheManager still holds, on a manager with two entries
C20_Witness ==
    /\ LastSave("ok")
    /\ last.query = 1
    /\ KeysOf(mgrs[last.mgr].cache) = CacheQueries
    /\ \E m \in Managers : mgrs[m].cache[1] = Some(EarlierEntry)
    /\ Load(disk).cache[1] = last.entry

\* ------------------------------------------------------------ claims 21-30

\* the cache file exists and is no cache document (a file a save was
\* interrupted on is not meant)
Corrupt(f) == f.kind # "partial" /\ LoadRaises(f) # ""

\* C21: when the cache file exists but is not a valid cache document, every
\* get, has, save and get_selected_video_id raises CacheError and no other
\* exception, on the first and on every later call of an instance, and no
\* entry read from the file is returned or kept.
C21_CorruptCacheFatal ==
    Corrupt(disk) =>
        /\ \A m \in Managers : mgrs[m] = NewManager
        /\ (last.op \in {"get", "has", "save", "get_selected_video_id"}
              /\ last.cause # "mkdir" /\ last.result # "killed")
             => (last.result = "CacheError" /\ last.value = None)


\* the filled cells of line k of the parsed text
FilledCells(k) == SelectSeq(content[k].cells, LAMBDA c : c # "")

\* line k is a row of a table: a header line and a separator line come
\* before it and only piped lines lie between them and line k
TableRow(k) ==
    /\ content[k].kind = "row"
    /\ \E h \in 1..(k - 2) :
         /\ content[h].kind = "header"
         /\ content[h + 1].kind = "separator"
         /\ \A r \in (h + 2)..k : Piped(content[r])

\* the table rows with at least 3 non-empty cells and an integer position
ValidRows ==
    {k \in 1..Len(content) :
       TableRow(k) /\ Len(FilledCells(k)) >= 3 /\ IntOf(FilledCells(k)[1]) # None}

PositionOfRow(k) == IntOf(FilledCells(k)[1])[1]

\* the place of valid row k in the list sorted by position, equal positions
\* in document order
RankOfRow(k) ==
    Cardinality({r \in ValidRows :
                   \/ PositionOfRow(r) < PositionOfRow(k)
                   \/ PositionOfRow(r) = PositionOfRow(k) /\ r <= k})

ParseDone == parsed.raised # "" \/ parsed.name # ""

\* C30: parse_markdown_string returns the tracks of the valid rows of every
\* table of the document in one list sorted by ascending position, equal
\* positions in document order; rows with a non-integer position or fewer
\* than 3 non-empty cells give no track and no error: the parse fails only
\* when the title, the table or every valid row is missing
C30_MultiTableParse ==
    ParseDone =>
      /\ parsed.raised = "ParseError" <=>
           \/ \A k \in 1..Len(content) : content[k].kind # "h1"
           \/ \A k \in 1..Len(content) : content[k].kind # "header"
           \/ ValidRows = {}
      /\ parsed.raised = "" =>
           /\ Len(parsed.tracks) = Cardinality(ValidRows)
           /\ \A k \in ValidRows :
                parsed.tracks[RankOfRow(k)] =
                  ParsedTrack(PositionOfRow(k), FilledCells(k)[2], FilledCells(k)[3])

\* two tables, the second with the lower position, an equal position in
\* both, and a skipped row
C30_Witness ==
    /\ ParseDone
    /\ \E k \in 1..Len(content) : content[k].kind = "row" /\ k \notin ValidRows
    /\ parsed.tracks = <<ParsedTrack(1, "Song C", "Artist C"),
                         ParsedTrack(1, "Song A", "Artist A"),
                         ParsedTrack(2, "Song B", "Artist B")>>
    /\ \E k \in 1..Len(content) :
         /\ content[k].cells = <<"2", "Song B", "Artist B">>
         /\ \E h \in (k + 1)..Len(content) : content[h].kind = "header"

\* the calls of the wrapped function before the last one all raised an
\* exception of the exceptions tuple
EarlierCallsRetried ==
    \A n \in 1..(Len(func_calls) - 1) :
      func_calls[n].raised \in decorator.exceptions

LastCall == func_calls[Len(func_calls)]

\* C28: the wrapped function is called at most max_retries times; the
\* wrapper returns the result of the first call that does not raise and
\* calls no more; when all max_retries calls raise an exception of the
\* tuple the exception of the last call is raised after exactly max_retries
\* calls; an exception outside the tuple is raised after the call that
\* raised it; the wait after failed attempt n (0-based, not the last) is
\* base_delay * 2^n and nothing is waited after the last attempt
C28_RetryWithBackoff ==
    wrapper.pc # "idle" =>
      /\ Len(func_calls) <= decorator.max_retries
      /\ EarlierCallsRetried
      /\ wrapper.pc = "loop" =>
           /\ \A n \in 1..Len(func_calls) :
                func_calls[n].raised \in decorator.exceptions
           /\ Len(func_calls) < decorator.max_retries
      /\ wrapper.pc = "returned" =>
           /\ LastCall.raised = ""
           /\ wrapper.out = Some(LastCall.value)
      /\ wrapper.pc = "raised" =>
           /\ LastCall.raised # ""
           /\ wrapper.out = Some([type |-> LastCall.raised, call |-> Len(func_calls)])
           /\ LastCall.raised \in decorator.exceptions =>
                Len(func_calls) = decorator.max_retries
      /\ Len(sleeps) = IF wrapper.pc = "loop" THEN Len(func_calls)
                       ELSE Len(func_calls) - 1
      /\ \A n \in 1..Len(sleeps) :
           sleeps[n] = decorator.base_delay * Pow2(n - 1)

\* every call raised a retried exception and the last one was raised again
\* after three waits
C28_Witness ==
    /\ wrapper.pc = "raised"
    /\ decorator.max_retries = 4
    /\ Len(func_calls) = 4
    /\ wrapper.out = Some([type |-> "QuotaExceededError", call |-> 4])
    /\ func_calls[1].raised = "YouTubeAPIError"
    /\ sleeps = <<100, 200, 400>>

\* C26: every outbound call of the client starts no earlier than the time
\* its _rate_limit recorded; of two consecutive calls the second is recorded
\* and starts at least RATE_LIMIT_DELAY after the time recorded for the
\* first; the first call and a call entered RATE_LIMIT_DELAY or more after
\* the time recorded for the one before wait zero time
C26_RateLimit ==
    /\ \A n \in 1..Len(requests) :
         /\ requests[n].started >= requests[n].recorded
         /\ last_request_time # None
    /\ \A n \in 2..Len(requests) :
         /\ requests[n].started - requests[n - 1].recorded >= RATE_LIMIT_DELAY
         /\ requests[n].entered - requests[n - 1].recorded >= RATE_LIMIT_DELAY
              => requests[n].slept = 0
    /\ Len(requests) >= 1 => requests[1].slept = 0
    /\ Len(requests) >= 1 => last_request_time = Some(requests[Len(requests)].recorded)

\* a search whose duration lookup waited, then a page entered late enough
\* not to wait
C26_Witness ==
    /\ Len(requests) = 3
    /\ requests[1].method = "search" /\ requests[1].slept = 0
    /\ requests[2].method = "durations" /\ requests[2].slept = 3
    /\ requests[3].method = "page" /\ requests[3].slept = 0
    /\ requests[3].entered - requests[2].recorded = RATE_LIMIT_DELAY
\* the calls of YouTubeClient.search of the current run that returned
ReturnedSearches ==
    {n \in 1..Len(remote_calls) :
       remote_calls[n].op = "search" /\ remote_calls[n].raised = ""}

\* the track a call was made for
TrackOfCall(call) == playlist.tracks[call.track_no]

\* the last remote call is a search whose entry cache.save has stored
JustSaved ==
    /\ remote_calls # <<>>
    /\ Len(remote_calls) \in ReturnedSearches
    /\ cmd_exit.how # "CacheError"

\* C22: every entry search returns is FOUND with the matches of the answer
\* in its rank order and selected = 0, or NOT_FOUND without matches and
\* without selected; its query is Track.query of the track, so that after
\* cache.save(result) cache.has(track.query) holds and, when FOUND,
\* get_selected_video_id(track.query) is the video of the first result
C22_SearchEntryShape ==
    /\ \A n \in ReturnedSearches :
         LET call == remote_calls[n]
             e == call.entry[1]
         IN  /\ \/ /\ e.status = FOUND
                   /\ e.matches # <<>>
                   /\ Len(e.matches) = Len(call.sr.items)
                   /\ \A k \in 1..Len(call.sr.items) :
                        e.matches[k].video_id = call.sr.items[k]
                   /\ e.selected = Some(0)
                \/ /\ e.status = NOT_FOUND
                   /\ e.matches = <<>>
                   /\ e.selected = None
                   /\ call.sr.items = <<>>
             /\ e.query = TrackQuery(TrackOfCall(call))
    /\ JustSaved =>
         LET call == remote_calls[Len(remote_calls)]
             c == CacheFile(TRUE, mgrs[1].cache)
             q == TrackQuery(TrackOfCall(call))
         IN  /\ Has(mgrs[1].cache, q)
             /\ call.entry[1].status = FOUND =>
                  /\ ~GetSelectedVideoId(c, q).raised
                  /\ GetSelectedVideoId(c, q).value # None
                  /\ GetSelectedVideoId(c, q).value[1].video_id = call.sr.items[1]

\* a search that found nothing and a search that found two videos, saved
C22_Witness ==
    /\ JustSaved
    /\ Len(remote_calls) = 3
    /\ remote_calls[2].entry[1].status = NOT_FOUND
    /\ remote_calls[3].entry[1].status = FOUND
    /\ remote_calls[3].sr.items = <<"v2", "v1">>
    /\ GetSelectedVideoId(CacheFile(TRUE, mgrs[1].cache),
                          TrackQuery(playlist.tracks[2])).value[1].video_id = "v2"
\* the answer that made a search call fail: the search answer, or the
\* answer of the duration lookup made for a search with results
FailedAnswer(call) ==
    IF call.sr.status # 200 THEN Some(call.sr)
    ELSE IF call.dr # None /\ call.dr[1].status # 200 THEN call.dr
    ELSE None

\* this step made a call of YouTubeClient.search
SearchCalled ==
    /\ Len(remote_calls') = Len(remote_calls) + 1
    /\ remote_calls'[Len(remote_calls')].op = "search"

\* C23: when the search call or the duration lookup of YouTubeClient.search
\* fails, search raises (QuotaExceededError on quota exceeded,
\* YouTubeAPIError on a generic API error) and returns no entry, and the
\* step saves nothing: the manager's cache and the cache file stay as they
\* were
C23_ErrorsNotSwallowed ==
    [][SearchCalled =>
         LET call == remote_calls'[Len(remote_calls')]
             failed == FailedAnswer(call)
         IN  failed # None =>
               /\ call.raised # ""
               /\ failed[1].status = 403 => call.raised = "QuotaExceededError"
               /\ failed[1].status = 500 => call.raised = "YouTubeAPIError"
               /\ call.entry = None
               /\ mgrs' = mgrs
               /\ disk' = disk]_vars

\* the second search of a run failed in its duration lookup, on quota
C23_Witness ==
    /\ Len(remote_calls) = 3
    /\ remote_calls[2].entry # None
    /\ remote_calls[3].sent = <<"search", "durations">>
    /\ remote_calls[3].raised = "QuotaExceededError"
    /\ remote_calls[3].entry = None
    /\ cmd_exit.code = Some(1)

\* the query a search call was made for
QueryOfCall(call) == TrackQuery(TrackOfCall(call))

\* the entry of the last search of the current run that returned for the
\* query of call n
LastEntryFor(n) ==
    LET same == {m \in ReturnedSearches :
                   QueryOfCall(remote_calls[m]) = QueryOfCall(remote_calls[n])}
    IN  remote_calls[CHOOSE m \in same : \A m2 \in same : m2 <= m].entry

\* the search calls of the current run
SearchCalls == {n \in 1..Len(remote_calls) : remote_calls[n].op = "search"}

\* C24: a run of search_command that QuotaExceededError ended has exit code
\* 1 and the cache file holds the entry of every track the run searched
\* before; the re-run without --force searches only tracks whose query the
\* file left by the interrupted run does not hold, so never a track that run
\* saved
C24_ResumableSearch ==
    /\ cmd_exit.how = "QuotaExceededError" =>
         /\ cmd_exit.code = Some(1)
         /\ ReturnedSearches # {} =>
              /\ ~Load(disk).raised
              /\ \A n \in ReturnedSearches :
                   Load(disk).cache[QueryOfCall(remote_calls[n])] = LastEntryFor(n)
    /\ run_no = 2 /\ ~command.force =>
         \A n \in SearchCalls :
           /\ Load(run1.disk).cache[QueryOfCall(remote_calls[n])] = None
           /\ \A m \in 1..Len(run1.calls) :
                run1.calls[m].op = "search" /\ run1.calls[m].raised = ""
                  => QueryOfCall(run1.calls[m]) # QueryOfCall(remote_calls[n])

\* the quota ended the first run at its second track; the re-run skipped
\* the first track, searched the second and ran to its end
C24_Witness ==
    /\ run_no = 2
    /\ ~command.force
    /\ Len(run1.calls) = 3
    /\ run1.calls[2].raised = "" /\ run1.calls[2].track_no = 1
    /\ run1.calls[3].raised = "QuotaExceededError" /\ run1.calls[3].track_no = 2
    /\ cmd_exit.how = "complete"
    /\ SearchCalls = {2}
    /\ remote_calls[2].track_no = 2
\* this step starts a run of search_command
SearchRunStarts ==
    /\ command'.name = "search"
    /\ cmd_pc = "idle" \/ run_no' # run_no

\* every track of the file has its query in the cache file
AllCached(f, tracks) ==
    /\ ~Load(f).raised
    /\ \A k \in 1..Len(tracks) : Load(f).cache[TrackQuery(tracks[k])] # None

\* without --force no two searches of the run are for the same query
OneSearchPerQuery ==
    \A n \in SearchCalls, m \in SearchCalls :
      QueryOfCall(remote_calls[n]) = QueryOfCall(remote_calls[m]) => n = m

\* with --force a run that reached its end searched every track in turn and
\* the cache holds, for each track, the entry of the last search for its
\* query
ForcedSearchesAll ==
    /\ Len(remote_calls) = Len(playlist.tracks) + 1
    /\ \A k \in 1..Len(playlist.tracks) :
         /\ remote_calls[k + 1].op = "search"
         /\ remote_calls[k + 1].track_no = k
         /\ mgrs[1].cache[TrackQuery(playlist.tracks[k])] = LastEntryFor(k + 1)
         /\ Load(disk).cache[TrackQuery(playlist.tracks[k])] = LastEntryFor(k + 1)

\* C25: without --force search_command never searches a track whose query
\* the cache holds, found or not, be it from the file or from an earlier row
\* of the same run, so it makes at most one search per query, and when every
\* track is cached it makes no remote call at all; with --force it searches
\* every track and overwrites its entry
C25_NoRedundantSearch ==
    /\ [](command.name = "search" /\ ~command.force => OneSearchPerQuery)
    /\ [](command.name = "search" /\ command.force /\ cmd_exit.how = "complete"
            => ForcedSearchesAll)
    /\ [][SearchCalled /\ ~command.force =>
            mgrs[1].cache[QueryOfCall(remote_calls'[Len(remote_calls')])] = None]_vars
    /\ [][SearchRunStarts /\ ~command'.force /\ AllCached(disk, playlist'.tracks)
            => remote_calls' = <<>> /\ cmd_pc' = "done"]_vars

\* a run without --force on a file whose two rows have the same query made
\* one search, and skipped the second row
C25_Witness ==
    /\ command.name = "search" /\ ~command.force
    /\ run_no = 1
    /\ cmd_exit.how = "complete"
    /\ Len(playlist.tracks) = 2
    /\ playlist.tracks[1] # playlist.tracks[2]
    /\ TrackQuery(playlist.tracks[1]) = TrackQuery(playlist.tracks[2])
    /\ SearchCalls = {2}
\* the track has no cache entry, or a FOUND entry whose selected is absent
\* or outside 0..len(matches)-1
Unresolved(cache, track) ==
    LET entry == cache[TrackQuery(track)]
    IN  \/ entry = None
        \/ /\ entry[1].status = FOUND
           /\ \/ entry[1].selected = None
              \/ entry[1].selected[1] \notin 0..(Len(entry[1].matches) - 1)

\* create_command has loaded the cache and some track of the file is
\* unresolved
SomeTrackUnresolved ==
    /\ command.name = "create"
    /\ mgrs[1].loaded
    /\ \E k \in 1..Len(playlist.tracks) : Unresolved(mgrs[1].cache, playlist.tracks[k])

\* C29: when a track of the file has no cache entry or no valid selected
\* match create_command exits with code 1 having made no remote call, and
\* with --dry-run it makes no remote call and, with every track resolved,
\* exits with code 0
C29_CreateCallsOnlyWhenAllowed ==
    /\ SomeTrackUnresolved =>
         /\ cmd_pc = "done"
         /\ cmd_exit.code = Some(1)
         /\ remote_calls = <<>>
    /\ command.name = "create" /\ command.dry_run =>
         /\ cmd_pc = "done"
         /\ remote_calls = <<>>
         /\ mgrs[1].loaded /\ ~SomeTrackUnresolved => cmd_exit.code = Some(0)

\* the errors of the parser, the cache and the gateway
BoundaryErrors ==
    {"ParseError", "CacheError", "AuthenticationError", "YouTubeAPIError",
     "QuotaExceededError"}

\* the other ways a command ends with exit code 1: a precondition that
\* fails, VideoUnavailableError outside the add loops, an exception that is
\* no PlaylistCreatorError
OtherFailures ==
    {"missing_playlist", "missing_cache", "tracks_missing",
     "VideoUnavailableError", "IndexError", "AttributeError", "OSError"}

\* call n of sync_command ended the run with exit code 1
SyncEndedAt(n) == n = Len(calls) /\ pc = "done" /\ exit_code = Some(1)

\* call n of search_command or create_command ended the run with exit code 1
CmdEndedAt(n) ==
    n = Len(remote_calls) /\ cmd_pc = "done" /\ cmd_exit.code = Some(1)

\* every error of the parser, the cache and the gateway ends the command
\* with exit code 1
ErrorsEndCommand ==
    /\ \A n \in 1..Len(calls) : calls[n].result \in BoundaryErrors => SyncEndedAt(n)
    /\ \A n \in 1..Len(remote_calls) :
         remote_calls[n].raised \in BoundaryErrors => CmdEndedAt(n)
    /\ ended \in BoundaryErrors => pc = "done" /\ exit_code = Some(1)
    /\ cmd_exit.how \in BoundaryErrors => cmd_pc = "done" /\ cmd_exit.code = Some(1)

\* the only errors that do not end the command are VideoUnavailableError
\* raised in the add loops
OnlyUnavailableTolerated ==
    /\ \A n \in 1..Len(calls) :
         calls[n].result # "ok" /\ ~SyncEndedAt(n) =>
           /\ calls[n].op = "add_video_to_playlist"
           /\ calls[n].result = "VideoUnavailableError"
    /\ \A n \in 1..Len(remote_calls) :
         remote_calls[n].raised # "" /\ ~CmdEndedAt(n) =>
           /\ remote_calls[n].op = "add_video_to_playlist"
           /\ remote_calls[n].raised = "VideoUnavailableError"

\* C27 as stated: every error of the parser, the cache and the gateway ends
\* the command with exit code 1, only VideoUnavailableError raised in the
\* add loops does not end it, and a run without such an error ends with exit
\* code 0
C27_ErrorPropagationAsStated ==
    /\ ErrorsEndCommand
    /\ OnlyUnavailableTolerated
    /\ pc = "done" /\ ended \notin BoundaryErrors => exit_code = Some(0)
    /\ cmd_pc = "done" /\ cmd_exit.how \notin BoundaryErrors => cmd_exit.code = Some(0)

\* C27: every error of the parser, the cache and the gateway ends the
\* command with exit code 1, only VideoUnavailableError raised in the add
\* loops does not end it, and a run without such an error ends with exit
\* code 0 unless a precondition fails, VideoUnavailableError is raised
\* outside the add loops or an exception that is no PlaylistCreatorError
\* leaves the command: these end it with exit code 1
C27_ErrorPropagation ==
    /\ ErrorsEndCommand
    /\ OnlyUnavailableTolerated
    /\ pc = "done" =>
         exit_code = IF ended \in BoundaryErrors \cup OtherFailures
                     THEN Some(1) ELSE Some(0)
    /\ cmd_pc = "done" =>
         cmd_exit.code = IF cmd_exit.how \in BoundaryErrors \cup OtherFailures
                         THEN Some(1) ELSE Some(0)

\* create_command went on after an unavailable video and was ended by the
\* quota at the next add
C27_Witness ==
    /\ command.name = "create"
    /\ Len(remote_calls) = 4
    /\ remote_calls[3].raised = "VideoUnavailableError"
    /\ remote_calls[4].raised = "QuotaExceededError"
    /\ cmd_exit = [code |-> Some(1), how |-> "QuotaExceededError"]

\* ------------------------------------------------------------ claims 31-40
\* the reason the payload of an HttpError states, if it states one
PayloadReason(error) ==
    IF error.body.kind = "reason" THEN Some(error.body.reason) ELSE None

IsQuota(error) ==
    /\ error.status = 403
    /\ PayloadReason(error) \in {Some("quotaExceeded"), Some("dailyLimitExceeded")}

IsVideoNotFound(error) ==
    error.status = 404 /\ PayloadReason(error) = Some("videoNotFound")

\* C31: for every HttpError, _handle_http_error does not return normally
\* and raises exactly one of QuotaExceededError (iff status 403 and reason
\* quotaExceeded or dailyLimitExceeded), VideoUnavailableError (iff status
\* 404 and reason videoNotFound) and YouTubeAPIError (every other case,
\* an unparseable error body included).
C31_ClassificationTotal ==
    http_error # None =>
        LET error == http_error[1]
        IN  /\ listing.pc = "raised"
            /\ listing.raised \in {"QuotaExceededError", "VideoUnavailableError",
                                   "YouTubeAPIError"}
            /\ listing.raised = "QuotaExceededError" <=> IsQuota(error)
            /\ listing.raised = "VideoUnavailableError" <=> IsVideoNotFound(error)
            /\ listing.raised = "YouTubeAPIError" <=>
                   (~IsQuota(error) /\ ~IsVideoNotFound(error))

\* the answer of playlistItems().list for a playlist that does not exist
PlaylistMissing == Response(404, "playlistNotFound")

MutationCalls == {"add_video_to_playlist", "remove_playlist_item"}

\* C32: when get_playlist_items fails because the playlist does not exist,
\* the gateway raises PlaylistNotFoundError, distinct from the generic
\* failure, and sync_command takes its PlaylistNotFoundError branch and
\* exits with code 1 before any mutation call.
C32_PlaylistNotFound ==
    [][FetchAndPlan(PlaylistMissing) =>
          /\ calls'[Len(calls')].result = "PlaylistNotFoundError"
          /\ ended' = "playlist_not_found"
          /\ exit_code' = Some(1)
          /\ \A n \in 1..Len(calls') : calls'[n].op \notin MutationCalls]_vars

\* the response the remote gave to request k of get_playlist_items
ResponseTo(k) == pages[page_requests[k]]

\* the remote reaches a response without nextPageToken within n requests
\* from pageToken `token` on
RECURSIVE ChainEndsFrom(_, _)
ChainEndsFrom(token, n) ==
    IF n = 0 THEN FALSE
    ELSE Falsy(pages[token].next) \/ ChainEndsFrom(pages[token].next, n - 1)

\* asked page after page, the remote eventually returns a page without a
\* token (it has three pages)
ChainEnds == ChainEndsFrom(None, 3)

\* the items of the first n answered requests, in the order of the requests
RECURSIVE ItemsOfPages(_)
ItemsOfPages(n) == IF n = 0 THEN <<>> ELSE ItemsOfPages(n - 1) \o ResponseTo(n).list

PaginationAsStated ==
    /\ page_requests # <<>> => page_requests[1] = None
    /\ \A k \in 1..(Len(page_requests) - 1) :
         /\ page_requests[k + 1] = ResponseTo(k).next
         /\ ~Falsy(ResponseTo(k).next)
    /\ listing.pc = "returned" =>
         /\ Falsy(ResponseTo(Len(page_requests)).next)
         /\ listing.result = Some(ItemsOfPages(Len(page_requests)))
         /\ ChainEnds
    /\ listing.pc = "raised" => listing.raised # "" /\ listing.result = None
    /\ listing.pc \in {"idle", "paging"} => listing.result = None

ListingOver == listing.pc \in {"returned", "raised"}

\* C33: get_playlist_items requests the first page with no token and each
\* next page with the nextPageToken of the previous response, stops at the
\* first response without nextPageToken and returns the items of all pages
\* concatenated in page order; it terminates if and only if the remote
\* eventually returns a page without a token; when a page request fails it
\* raises and returns no partial list.
C33_FullPagination ==
    /\ []PaginationAsStated
    /\ ChainEnds ~> ListingOver
    /\ [](~ChainEnds => listing.pc # "returned")

\* the call has returned the items of three pages, two of them with items
C33_Witness ==
    /\ listing.pc = "returned"
    /\ Len(page_requests) = 3
    /\ Len(listing.result[1]) >= 3

\* a FOUND entry whose selected is a negative integer
NegativeSelected(e) ==
    e # None /\ e[1].status = FOUND /\ e[1].selected # None /\ e[1].selected[1] < 0

\* C34: for a FOUND CacheEntry whose selected is a negative integer,
\* get_selected_video_id returns absent, as for every selected outside
\* 0..len(matches)-1, and sync_command treats the track as unresolved: it
\* does not use the video_id of some match for it.
C34_NegativeSelectedAbsent ==
    (Prepared /\ file.ok /\ cache_file.valid) =>
        \A k \in 1..Len(file.tracks) :
            LET q == file.tracks[k].query
                r == GetSelectedVideoId(cache_file, q)
            IN  NegativeSelected(Get(cache_file, q)) =>
                  /\ ~r.raised
                  /\ r.value = None
                  /\ \A n \in 1..Len(desired) : desired[n].track # file.tracks[k]

\* the step leaves the record of the last call as it is
SameCall ==
    /\ last'.op = last.op /\ last'.mgr = last.mgr /\ last'.query = last.query
    /\ last'.result = last.result /\ last'.cause = last.cause
    /\ last'.entry = last.entry /\ last'.value = last.value

\* this step is a call of a CacheManager method on instance m
CallOn(m) == writer = None /\ ~SameCall /\ last'.mgr = m /\ last'.result # "killed"

\* the call raised inside _load: the instance looked at the file and failed
ReadFailed(call) == call.cause = "load" /\ call.result # "killed"

\* an instance whose last call read the file does not read it in its next
\* call
NoSecondRead ==
    \A m \in Managers :
        (last.mgr = m /\ ReadFailed(last) /\ CallOn(m)) => ~ReadFailed(last')

\* a call on an instance that has loaded leaves its mapping as it is, but
\* for the entry a save puts, whatever the file holds
LoadedNeverReads ==
    \A m \in Managers :
        (mgrs[m].loaded /\ CallOn(m)) =>
            /\ ~ReadFailed(last')
            /\ mgrs'[m].loaded
            /\ mgrs'[m].cache = IF last'.op = "save" /\ last'.cause # "mkdir"
                                THEN Put(mgrs[m].cache, last'.entry[1])
                                ELSE mgrs[m].cache

\* a call on an instance that has not loaded reads the file: it fails in
\* _load or starts from the mapping the file holds
UnloadedReads ==
    \A m \in Managers :
        (~mgrs[m].loaded /\ CallOn(m) /\ last'.cause # "mkdir") =>
            \/ ReadFailed(last') /\ ~mgrs'[m].loaded
            \/ /\ mgrs'[m].loaded
               /\ ~Load(disk).raised
               /\ mgrs'[m].cache = IF last'.op = "save"
                                   THEN Put(Load(disk).cache, last'.entry[1])
                                   ELSE Load(disk).cache

\* instance b has just completed save(eB); instance a holds for another
\* query an entry that b does not hold
SavedOver(a, b, query) ==
    /\ a # b
    /\ LastSave("ok") /\ last.mgr = b /\ last.query # query
    /\ mgrs[a].loaded /\ mgrs[b].loaded
    /\ mgrs[a].cache[query] # None
    /\ mgrs[b].cache[query] # mgrs[a].cache[query]

\* the file is the mapping of the last writer: it holds eB and not eA
LastWriterWins ==
    \A a, b \in Managers : \A query \in CacheQueries :
        SavedOver(a, b, query) =>
            /\ disk = DocumentFile(Dump(mgrs[b].cache))
            /\ disk.data[last.query] = Some(EntryToJson(last.entry[1]))
            /\ disk.data[query] # Some(EntryToJson(mgrs[a].cache[query][1]))

\* C35 as stated: a CacheManager reads the file at most once (on its first
\* access) and never again; for two instances A and B that have both loaded
\* the same file, after A.save(eA) then B.save(eB) with different queries,
\* the file equals B's in-memory mapping, so it contains eB and not eA.
C35_LastWriterWinsAsStated ==
    /\ [][NoSecondRead]_vars
    /\ []LastWriterWins

\* C35: a CacheManager reads the file at every access until a load has
\* succeeded and never again after that; for two instances A and B that
\* have both loaded the same file, after A.save(eA) then B.save(eB) with
\* different queries, the file equals B's in-memory mapping, so it contains
\* eB and not eA.
C35_LastWriterWins ==
    /\ [][LoadedNeverReads]_vars
    /\ [][UnloadedReads]_vars
    /\ []LastWriterWins

\* both instances loaded the file of an earlier run, instance 1 saved a new
\* entry for its query, then instance 2 saved an entry for another query:
\* the file holds the earlier entry again
C35_Witness ==
    /\ SavedOver(1, 2, 1)
    /\ clock = 3
    /\ mgrs[1].cache[1][1].searched_at.tick = 1
    /\ mgrs[2].cache[1] = Some(EarlierEntry)
    /\ disk.data[1] = Some(EntryToJson(EarlierEntry))

IsCreatePlaylist(c) == c.op = "create_playlist"

\* the track numbers (places in the parsed, position-sorted list) of a list
\* of calls or of tracks_ready
TrackNos(list) == [k \in 1..Len(list) |-> list[k].track_no]

\* the number of add calls of the run that raised what
AddsRaising(raised) ==
    Len(SelectSeq(remote_calls, LAMBDA c : IsAdd(c) /\ c.raised = raised))

\* the video ids of the adds of the run that succeeded, in call order
VideosAdded ==
    LET done == SelectSeq(remote_calls, LAMBDA c : IsAdd(c) /\ c.raised = "")
    IN  [k \in 1..Len(done) |->
           tracks_ready[CHOOSE n \in 1..Len(tracks_ready) :
                          tracks_ready[n].track_no = done[k].track_no].video_id]

\* create_command has reached its apply phase: create_playlist was called
Applying ==
    command.name = "create" /\ \E p \in 1..Len(remote_calls) : IsCreatePlaylist(remote_calls[p])

\* create_playlist is called once, and before any add
CreatedOnceFirst ==
    /\ Len(SelectSeq(remote_calls, IsCreatePlaylist)) = 1
    /\ \A p \in 1..Len(remote_calls) :
         IsAdd(remote_calls[p]) =>
            \E q \in 1..(p - 1) :
               IsCreatePlaylist(remote_calls[q]) /\ remote_calls[q].raised = ""

\* the adds go through tracks_ready in order, one call per track, in
\* ascending track position
AddsInOrder ==
    LET adds == AddCalls(remote_calls)
    IN  /\ Len(adds) <= Len(tracks_ready)
        /\ TrackNos(adds) = SubSeq(TrackNos(tracks_ready), 1, Len(adds))
        /\ \A k \in 1..(Len(adds) - 1) :
             /\ adds[k].track_no < adds[k + 1].track_no
             /\ playlist.tracks[adds[k].track_no].position
                  <= playlist.tracks[adds[k + 1].track_no].position
        /\ cmd_exit.how = "complete" => Len(adds) = Len(tracks_ready)

\* an add that raised VideoUnavailableError is counted in failed and the
\* loop goes on with the next ready track
UnavailableCounted ==
    LET adds == AddCalls(remote_calls)
        n == Len(remote_calls)
    IN  /\ playlist_id # None =>
             /\ n_failed = AddsRaising("VideoUnavailableError")
             /\ n_added = AddsRaising("")
        /\ (adds # <<>> /\ remote_calls[n].raised = "VideoUnavailableError") =>
             /\ track_index = Len(adds)
             /\ IF Len(adds) < Len(tracks_ready)
                THEN cmd_pc = "adding" /\ cmd_exit.code = None
                ELSE cmd_exit = [code |-> Some(0), how |-> "complete"]

\* an add that raised QuotaExceededError is the last call of the run, which
\* exits with code 1; the playlist and the items added are in place
QuotaStops ==
    \A p \in 1..Len(remote_calls) :
        (IsAdd(remote_calls[p]) /\ remote_calls[p].raised = "QuotaExceededError") =>
            /\ p = Len(remote_calls)
            /\ cmd_pc = "done"
            /\ cmd_exit.code = Some(1)
            /\ playlist_id # None
            /\ playlist_id[1] \in 1..Len(playlists)
            /\ playlists[playlist_id[1]] = VideosAdded

\* C36: in the apply phase of create_command create_playlist is called
\* exactly once and before any add; adds are issued in ascending track
\* position, one per ready track; VideoUnavailableError on an add is counted
\* in failed and the next track is attempted; QuotaExceededError stops all
\* further adds and exits with code 1 leaving the playlist and the items
\* already added in place; on normal completion added + failed equals the
\* number of ready tracks.
C36_CreateApplyPhase ==
    /\ command.name = "create" => AddsInOrder /\ QuotaStops
    /\ Applying =>
         /\ CreatedOnceFirst
         /\ UnavailableCounted
         /\ cmd_exit.how = "complete" =>
              /\ n_added + n_failed = Len(tracks_ready)
              /\ playlists[playlist_id[1]] = VideosAdded

\* a run of two ready tracks: the first add raised VideoUnavailableError,
\* the second succeeded and the run completed
C36_Witness ==
    /\ Applying
    /\ Len(tracks_ready) = 2
    /\ cmd_exit.how = "complete"
    /\ n_failed = 1
    /\ n_added = 1
    /\ remote_calls[3].raised = "VideoUnavailableError"
    /\ playlists = <<<<tracks_ready[2].video_id>>>>

\* a run of two ready tracks whose second add raised QuotaExceededError
C36_WitnessQuota ==
    /\ Applying
    /\ Len(tracks_ready) = 2
    /\ Len(remote_calls) = 4
    /\ remote_calls[4].raised = "QuotaExceededError"
    /\ playlists = <<<<tracks_ready[1].video_id>>>>

\* the video ids of the adds of a call log that succeeded, in call order
VideosOfCalls(log) ==
    LET done == SelectSeq(log, LAMBDA c : IsAdd(c) /\ c.raised = "")
    IN  [k \in 1..Len(done) |->
           tracks_ready[CHOOSE n \in 1..Len(tracks_ready) :
                          tracks_ready[n].track_no = done[k].track_no].video_id]

\* the run made a create_playlist call that succeeded
Created(log) ==
    \E p \in 1..Len(log) : IsCreatePlaylist(log[p]) /\ log[p].raised = ""

\* the playlists the account had when the current run started
PlaylistsBefore == IF run_no = 2 /\ Created(run1.calls) THEN 1 ELSE 0

\* a run whose create_playlist succeeded works on a playlist of its own,
\* which holds the videos this run added and nothing else
NewPlaylistPerRun ==
    (command.name = "create" /\ Created(remote_calls)) =>
        /\ Len(playlists) = PlaylistsBefore + 1
        /\ playlist_id = Some(PlaylistsBefore + 1)
        /\ playlists[playlist_id[1]] = VideosOfCalls(remote_calls)

\* the re-run after a quota abort at track k: the partial playlist of the
\* first run is as that run left it, and the adds of the re-run start at the
\* first ready track
RerunRestarts ==
    (run_no = 2 /\ Created(run1.calls)) =>
        /\ playlists[1] = VideosOfCalls(run1.calls)
        /\ AddsInOrder
        /\ AddCalls(remote_calls) # <<>> =>
             AddCalls(remote_calls)[1].track_no = tracks_ready[1].track_no

NoRetryWrapper ==
    attempt = 0 /\ func_calls = <<>> /\ sleeps = <<>> /\ wrapper.pc = "idle"

\* the number of calls of an operation in a log
CallsOf(log, op) == Len(SelectSeq(log, LAMBDA c : c.op = op))

\* sync_command: one get_authenticated_service, one get_playlist_items, the
\* adds are the elements of to_add in order and the removes those of
\* to_remove in order, one call each
SyncSingleAttempt ==
    LET adds == AddCalls(calls)
        removes == RemoveCalls(calls)
    IN  /\ CallsOf(calls, "get_authenticated_service") <= 1
        /\ CallsOf(calls, "get_playlist_items") <= 1
        /\ Len(adds) = i /\ i <= Len(to_add)
        /\ \A k \in 1..Len(adds) : adds[k].video_id = to_add[k].video_id
        /\ Len(removes) = j /\ j <= Len(to_remove)
        /\ \A k \in 1..Len(removes) : removes[k].item_id = to_remove[k].item_id

\* search_command and create_command: one get_authenticated_service, one
\* create_playlist, and one search or add per track, in the order of the
\* tracks
CmdSingleAttempt ==
    LET perTrack == SelectSeq(remote_calls, LAMBDA c : c.track_no # 0)
    IN  /\ CallsOf(remote_calls, "get_authenticated_service") <= 1
        /\ CallsOf(remote_calls, "create_playlist") <= 1
        /\ \A k \in 1..(Len(perTrack) - 1) :
             perTrack[k].track_no < perTrack[k + 1].track_no

\* a generic YouTubeAPIError on an add of sync_command is the last call of
\* the run, which exits with code 1 having made no remove
ApiErrorAborts ==
    \A p \in 1..Len(calls) :
        (IsAdd(calls[p]) /\ calls[p].result = "YouTubeAPIError") =>
            /\ p = Len(calls)
            /\ pc = "done"
            /\ exit_code = Some(1)
            /\ RemoveCalls(calls) = <<>>

\* C38: gateway calls are single-attempt: no YouTubeClient operation is
\* wrapped by retry_with_backoff, so in search, create and sync each remote
\* operation is attempted exactly once, and a generic YouTubeAPIError on
\* the k-th add of sync aborts the run with exit code 1, with no retry, no
\* later add and no remove attempted.
C38_SingleAttempt ==
    /\ NoRetryWrapper
    /\ SyncSingleAttempt
    /\ CmdSingleAttempt
    /\ ApiErrorAborts

\* sync_command had two videos to add and an item to remove; its first add
\* raised YouTubeAPIError
C38_Witness ==
    /\ Len(to_add) = 2
    /\ to_remove # <<>>
    /\ AddCalls(calls) # <<>>
    /\ AddCalls(calls)[1].result = "YouTubeAPIError"
    /\ pc = "done"

\* sync_command, once it has read the cache, leaves what it read as it is
SyncKeepsCache == pc # "validated" => cache_file' = cache_file

\* a step of sync_command or create_command leaves the cache file as it is
OnlySearchWrites == command'.name # "search" => disk' = disk

\* in a create run the cache file is the file of the start of the run, and
\* the entries of the CacheManager are the entries of that file
CreateKeepsCache ==
    command.name = "create" =>
        /\ disk = written
        /\ mgrs[1].loaded =>
             /\ ~Load(written).raised
             /\ mgrs[1].cache = Load(written).cache

\* C39: sync_command and create_command are read-only on the cache: in
\* every run, whatever its outcome, neither calls CacheManager.save, so the
\* set of cache entries and the content of the cache file are the same
\* after the run as before it; only search_command writes entries.
C39_CacheReadOnly ==
    /\ [][SyncKeepsCache]_vars
    /\ [][OnlySearchWrites]_vars
    /\ []CreateKeepsCache

\* a create run that added two videos and completed, on a cache file that
\* holds entries
C39_Witness ==
    /\ command.name = "create"
    /\ cmd_exit.how = "complete"
    /\ n_added = 2
    /\ disk = written
    /\ mgrs[1].cache # EmptyCache

\* a search run has written an entry that the file did not hold
C39_SearchWrites ==
    /\ command.name = "search"
    /\ disk # written
    /\ ~Load(disk).raised

\* the number of elements of a list (remote items, to_add tuples) that
\* carry a video
CountVideo(list, video_id) ==
    Cardinality({k \in 1..Len(list) : list[k].video_id = video_id})

\* the run got the items of the playlist and computed its plan
HasPlan(r) == r.calls # <<>> /\ r.calls[1].result = "ok"

\* both runs called get_playlist_items before either called
\* add_video_to_playlist
BothFetchedFirst ==
    \A p \in Procs : HasPlan(procs[p]) /\ procs[p].adds_before = 0

\* the run went through its loops and returned
RunReturned(r) == r.pc = "done" /\ r.exit_code = Some(0)

\* every add of the run was made and succeeded
EveryAddOk(r) ==
    /\ r.i = Len(r.to_add)
    /\ \A n \in 1..Len(r.calls) : IsAdd(r.calls[n]) => r.calls[n].result = "ok"

\* the two runs computed the list of the videos missing when they started
SamePlan ==
    BothFetchedFirst =>
        \A p \in Procs : procs[p].to_add = ToAdd(desired, remote0)

\* every video of to_add is in the playlist twice for each time to_add
\* holds it
EachAddedTwice ==
    \A n \in 1..Len(procs[1].to_add) :
        LET video_id == procs[1].to_add[n].video_id
        IN  CountVideo(remote, video_id) = 2 * CountVideo(procs[1].to_add, video_id)

\* run p called get_playlist_items when the other run was over
RanAfter(p) ==
    /\ HasPlan(procs[p])
    /\ procs[p].other_pc = "done"
    /\ RunReturned(procs[CHOOSE q \in Procs : q # p])

C40_WitnessSequential ==
    /\ RanAfter(2)
    /\ procs[1].to_add # <<>>
    /\ EveryAddOk(procs[1])
    /\ procs[2].to_add = <<>>
    /\ RunReturned(procs[2])

====
